---- MODULE Spec2Model ----
(***************************************************************************)
(* A model of package rst (github.com/mohamedattahri/rst): the Mux, the    *)
(* endpoint handlers, the resource-writing pipeline, range and accept      *)
(* headers, compression, CORS and error rendering.                         *)
(*                                                                         *)
(* An HTTP exchange is modelled functionally: every handler is an operator *)
(* that takes the response writer (a record) and returns it after the      *)
(* handler has run.  The writer keeps the live header map, the snapshot of *)
(* the headers sent with the first WriteHeader, the status line, the body, *)
(* and a log of the endpoint operations and writer calls that happened.    *)
(***************************************************************************)
EXTENDS Integers, Sequences, FiniteSets, TLC

VARIABLES
    ac,      \* Mux.ac: the CORS policy, NoPolicy when nil
    Debug,   \* Mux.Debug
    req,     \* the last request served (NoRequest before the first one)
    resp     \* the writer as the last exchange left it

vars == <<ac, Debug, req, resp>>

----------------------------------------------------------------------------
(* Method names and other constants of the package.                        *)

Options == "OPTIONS"
HeadMethod == "HEAD"
Get == "GET"
Patch == "PATCH"
Put == "PUT"
Post == "POST"
Delete == "DELETE"

supportedMethods == <<HeadMethod, Get, Patch, Put, Post, Delete>>

CompressionThreshold == 860

gzipCompression == "gzip"
flateCompression == "deflate"

----------------------------------------------------------------------------
(* Strings.  Header values are TLA+ strings built with \o; the string      *)
(* functions the package uses are tabulated over the strings that occur.   *)

RECURSIVE Join(_, _)
Join(list, sep) ==
    IF list = <<>> THEN ""
    ELSE IF Len(list) = 1 THEN list[1]
    ELSE list[1] \o sep \o Join(Tail(list), sep)

ToUpper(s) ==
    CASE s = "get" -> "GET"
      [] s = "head" -> "HEAD"
      [] s = "post" -> "POST"
      [] s = "options" -> "OPTIONS"
      [] s = "Delete" -> "DELETE"
      [] OTHER -> s

CanonicalHeaderKey(k) ==
    CASE k = "ETag" -> "Etag"
      [] k = "accept" -> "Accept"
      [] k = "ACCEPT" -> "Accept"
      [] k = "RANGE" -> "Range"
      [] k = "origin" -> "Origin"
      [] k = "range" -> "Range"
      [] k = "accept-encoding" -> "Accept-Encoding"
      [] k = "etag" -> "Etag"
      [] k = "x-custom" -> "X-Custom"
      [] OTHER -> k

----------------------------------------------------------------------------
(* http.Header: a map from canonical key to the list of its values.        *)

HeaderKeys ==
    { "Allow", "Content-Type", "Vary", "Last-Modified", "Etag", "Expires",
      "Content-Encoding", "Content-Range", "Accept-Ranges", "Location",
      "Cache-Control", "Server",
      "Access-Control-Allow-Origin", "Access-Control-Allow-Credentials",
      "Access-Control-Expose-Headers", "Access-Control-Max-Age",
      "Access-Control-Allow-Methods", "Access-Control-Allow-Headers" }

EmptyHeader == [k \in HeaderKeys |-> <<>>]

HeaderGet(h, k) ==
    LET v == h[CanonicalHeaderKey(k)] IN IF v = <<>> THEN "" ELSE v[1]

HeaderSet(h, k, v) == [h EXCEPT ![CanonicalHeaderKey(k)] = <<v>>]

HeaderAdd(h, k, v) == [h EXCEPT ![CanonicalHeaderKey(k)] = Append(@, v)]

HeaderDel(h, k) == [h EXCEPT ![CanonicalHeaderKey(k)] = <<>>]

HeaderHas(h, k) == h[CanonicalHeaderKey(k)] # <<>>

(* Faulty variant: the value is compared and added as it is passed.        *)
addVaryAsPassed(header, value) ==
    IF \E i \in DOMAIN header["Vary"] : header["Vary"][i] = value
    THEN header
    ELSE HeaderAdd(header, "Vary", value)

addVary(header, value) ==
    LET v == CanonicalHeaderKey(value) IN
    IF \E i \in DOMAIN header["Vary"] : header["Vary"][i] = v
    THEN header
    ELSE HeaderAdd(header, "Vary", v)

----------------------------------------------------------------------------
(* The response writer.  WriteHeader keeps the first status and snapshots  *)
(* the headers; Write implies WriteHeader(200), drops the body of a HEAD   *)
(* request and of a 204 or 304 response, and compresses what it writes in  *)
(* the format the live Content-Encoding header names at the time of the    *)
(* call, whether or not that header was sent.                              *)

noContent == [len |-> 0, of |-> "none", fmt |-> ""]

rawResponseWriter(method) ==
    [ hdr         |-> EmptyHeader,
      wrapped     |-> FALSE,
      wroteHeader |-> FALSE,
      status      |-> 0,
      sent        |-> EmptyHeader,
      body        |-> <<>>,
      method      |-> method,
      calls       |-> <<>>,
      log         |-> <<>>,
      panicked    |-> FALSE ]

Logged(w, e) == [w EXCEPT !.log = Append(@, e)]

Called(w, op) == [w EXCEPT !.calls = Append(@, op)]

WriteHeader(w, code) ==
    LET l == Logged(w, [op |-> "WriteHeader", code |-> code]) IN
    IF w.wroteHeader THEN l
    ELSE [l EXCEPT !.wroteHeader = TRUE, !.status = code, !.sent = w.hdr]

bodyAllowedForStatus(status) == status \notin {204, 304}

compress(format, b) ==
    IF format \in {gzipCompression, flateCompression}
    THEN [bytes |-> b, coding |-> format]
    ELSE [bytes |-> b, coding |-> "identity"]

implicitHeader(w) ==
    IF w.wroteHeader THEN w
    ELSE [w EXCEPT !.wroteHeader = TRUE, !.status = 200, !.sent = w.hdr]

writeBytes(w, b) ==
    IF b.len = 0 \/ ~bodyAllowedForStatus(w.status) \/ w.method = HeadMethod
    THEN w
    ELSE [w EXCEPT !.body =
             Append(@, compress(IF w.wrapped
                                THEN HeaderGet(w.hdr, "Content-Encoding")
                                ELSE "", b))]

Write(w, b) ==
    writeBytes(Logged(implicitHeader(w), [op |-> "Write", code |-> b.len]), b)

newResponseWriter(w) == [w EXCEPT !.wrapped = TRUE]

----------------------------------------------------------------------------
(* Time.  Instants are counted in ticks, TicksPerSecond to the second, so  *)
(* that a resource's modification time can fall between two seconds.  The  *)
(* rfc1123 layout has no fraction: formatting drops it, parsing yields a   *)
(* whole second.  A value that does not parse gives the zero time.         *)

TicksPerSecond == 2
MaxSecond == 3

ZeroTime == 0 - 1

rfc1123(sec) == "Thu, 01 Jan 1970 00:00:0" \o ToString(sec) \o " GMT"

FormatTime(t) == rfc1123(t \div TicksPerSecond)

ParseTime(value) ==
    IF \E sec \in 0..MaxSecond : value = rfc1123(sec)
    THEN [err |-> FALSE,
          t |-> TicksPerSecond * (CHOOSE sec \in 0..MaxSecond : value = rfc1123(sec))]
    ELSE [err |-> TRUE, t |-> ZeroTime]

----------------------------------------------------------------------------
(* Accept.  The raw header is the list of its comma-separated parts, each  *)
(* with the media range split at "/" and the q parameter in tenths; the    *)
(* absent header is the one empty part strings.Split yields for "".        *)

AcceptPart(type, slash, sub, q) ==
    [type |-> type, slash |-> slash, sub |-> sub, q |-> q]

NoAccept == <<AcceptPart("", FALSE, "", 10)>>

AcceptLess(ai, aj) ==
    \/ ai.Q > aj.Q
    \/ ai.Type # "*" /\ aj.Type = "*"
    \/ ai.SubType # "*" /\ aj.SubType = "*"

Swap(seq, i, j) == [seq EXCEPT ![i] = seq[j], ![j] = seq[i]]

RECURSIVE insertDown(_, _)
insertDown(data, j) ==
    IF j > 1 /\ AcceptLess(data[j], data[j - 1])
    THEN insertDown(Swap(data, j, j - 1), j - 1)
    ELSE data

RECURSIVE insertionSort(_, _)
insertionSort(data, i) ==
    IF i > Len(data) THEN data
    ELSE insertionSort(insertDown(data, i), i + 1)

RECURSIVE parseParts(_)
parseParts(parts) ==
    IF parts = <<>> THEN <<>>
    ELSE LET p == parts[1]
             rest == parseParts(Tail(parts))
         IN  IF ~p.slash /\ p.type = "*"
             THEN <<[Type |-> "*", SubType |-> "*", Q |-> p.q]>> \o rest
             ELSE IF p.slash
             THEN <<[Type |-> p.type, SubType |-> p.sub, Q |-> p.q]>> \o rest
             ELSE rest

ParseAccept(header) == insertionSort(parseParts(header), 2)

SplitType(ctype) ==
    CASE ctype = "application/json" -> <<"application", "json">>
      [] ctype = "text/javascript" -> <<"text", "javascript">>
      [] ctype = "application/xml" -> <<"application", "xml">>
      [] ctype = "text/xml" -> <<"text", "xml">>
      [] ctype = "text/plain" -> <<"text", "plain">>
      [] ctype = "text/html" -> <<"text", "html">>
      [] ctype = "*/*" -> <<"*", "*">>

ClauseMatches(clause, ctsp) ==
    \/ clause.Type = ctsp[1] /\ clause.SubType = ctsp[2]
    \/ clause.Type = ctsp[1] /\ clause.SubType = "*"
    \/ clause.Type = "*" /\ clause.SubType = "*"

(* Faulty variant: the first alternative that any clause matches.          *)
NegotiateAlternativesFirst(accept, alts) ==
    LET hits == {i \in DOMAIN alts :
                     \E c \in DOMAIN accept :
                         ClauseMatches(accept[c], SplitType(alts[i]))}
    IN  IF hits # {}
        THEN alts[CHOOSE i \in hits : \A k \in hits : i <= k]
        ELSE ""

RECURSIVE Negotiate(_, _)
Negotiate(accept, alts) ==
    IF accept = <<>> THEN ""
    ELSE LET hits == {i \in DOMAIN alts :
                          ClauseMatches(accept[1], SplitType(alts[i]))}
         IN  IF hits # {}
             THEN alts[CHOOSE i \in hits : \A k \in hits : i <= k]
             ELSE Negotiate(Tail(accept), alts)

alternatives ==
    <<"application/json", "text/javascript", "application/xml", "text/xml",
      "text/plain", "*/*">>

----------------------------------------------------------------------------
(* Resources and errors.  A resource is what an endpoint operation hands   *)
(* back: its validators, the length of its encoding, and the optional      *)
(* interfaces it implements (fmt.Stringer, http.Handler, Ranger).          *)

Resource(name, etag, lastModified, len, stringer, handler, ranger, count) ==
    [ name |-> name, etag |-> etag, lastModified |-> lastModified,
      len |-> len, stringer |-> stringer, handler |-> handler,
      ranger |-> ranger, count |-> count ]

NilResource == Resource("nil", "", 0, 0, FALSE, FALSE, FALSE, 0)

Units == <<"bytes", "resources">>

Bytes(len, of, fmt) == [len |-> len, of |-> of, fmt |-> fmt]

NoError == [kind |-> "nil", Code |-> 0, Header |-> EmptyHeader, Stack |-> FALSE]

NewError(code) ==
    [kind |-> "Error", Code |-> code, Header |-> EmptyHeader, Stack |-> FALSE]

GoError == [kind |-> "error", Code |-> 0, Header |-> EmptyHeader, Stack |-> FALSE]

NotFound == NewError(404)

NotAcceptable == NewError(406)

MethodNotAllowed(forbidden, allowed) ==
    [NewError(405) EXCEPT
        !.Header = HeaderSet(@, "Allow", Join(allowed, ", "))]

InternalServerError(captureStack) ==
    [NewError(500) EXCEPT !.Stack = captureStack]

(* Every rendering of an Error shows its stack when it has one.            *)
errorName(e) ==
    "error " \o ToString(e.Code) \o (IF e.Stack THEN " with stack" ELSE "")

ErrorBytes(e, fmt) == Bytes(1, errorName(e), fmt)

----------------------------------------------------------------------------
(* Encoding.                                                               *)

Encoded(ct, b, err) == [ct |-> ct, b |-> b, err |-> err]

defaultAccept(accept) ==
    IF Len(accept) = 0
    THEN <<[Type |-> "*", SubType |-> "*", Q |-> 10]>>
    ELSE accept

(* A resource named Unencodable is a value encoding/json and encoding/xml   *)
(* fail on: the error of the encoder, which is no *Error, is returned.     *)
Unencodable == "unencodable"

encoderOutput(ct, name, len, fmt) ==
    IF name = Unencodable THEN Encoded(ct, noContent, GoError)
    ELSE Encoded(ct, Bytes(len, name, fmt), NoError)

encodeAs(chosen, name, len, stringer) ==
    CASE chosen \in {"application/json", "text/javascript"} ->
           encoderOutput("application/json; charset=utf-8", name, len, "json")
      [] chosen \in {"application/xml", "text/xml"} ->
           encoderOutput("application/xml; charset=utf-8", name, len, "xml")
      [] chosen = "text/plain" /\ stringer ->
           Encoded("text/plain; charset=utf-8",
                   Bytes(len, name, "text"), NoError)
      [] OTHER -> Encoded("", noContent, NotAcceptable)

MarshalResource(name, len, stringer, r) ==
    encodeAs(Negotiate(defaultAccept(ParseAccept(r.Accept)), alternatives),
             name, len, stringer)

(* Error implements Marshaler: HTML when text/html or */* is negotiated,   *)
(* MarshalResource otherwise.                                              *)
ErrorMarshalRST(e, r) ==
    IF Negotiate(ParseAccept(r.Accept), <<"text/html", "*/*">>)
           \in {"text/html", "*/*"}
    THEN Encoded("text/html; charset=utf-8", ErrorBytes(e, "html"), NoError)
    ELSE MarshalResource(errorName(e), 1, TRUE, r)

(* Resources of the model do not implement Marshaler.                      *)
Marshal(resource, r) ==
    MarshalResource(resource.name, resource.len, resource.stringer, r)

RECURSIVE addAll(_, _, _)
addAll(hdr, key, values) ==
    IF values = <<>> THEN hdr
    ELSE addAll(HeaderAdd(hdr, key, values[1]), key, Tail(values))

errorEncoding(e, m) ==
    IF m.err # NoError
    THEN Encoded("text/plain; charset=utf-8", ErrorBytes(e, "text"), NoError)
    ELSE m

noCache(hdr, code) ==
    IF code # 404 /\ code # 410
    THEN HeaderSet(hdr, "Cache-Control", "no-cache, no-store, must-revalidate")
    ELSE hdr

errorHeaders(e, hdr, ct) ==
    LET h1 == addAll(addAll(hdr, "Allow", e.Header["Allow"]),
                     "Content-Range", e.Header["Content-Range"])
        h2 == addAll(h1, "Vary", e.Header["Vary"])
        h3 == HeaderDel(HeaderDel(HeaderDel(h2, "Last-Modified"), "ETag"),
                        "Expires")
    IN  noCache(addVary(HeaderSet(h3, "Content-Type", ct), "Accept"), e.Code)

errorWrite(e, w, m) ==
    Write(WriteHeader([w EXCEPT !.hdr = errorHeaders(e, w.hdr, m.ct)],
                      e.Code), m.b)

ErrorServeHTTP(e, w, r) ==
    errorWrite(e, w, errorEncoding(e, ErrorMarshalRST(e, r)))

ErrorHandler(err, w, r) ==
    IF err.kind = "Error" THEN ErrorServeHTTP(err, w, r)
    ELSE [w EXCEPT !.panicked = TRUE]

writeError(err, w, r) == ErrorHandler(err, w, r)

----------------------------------------------------------------------------
(* Range and Content-Range.  uint64 is scaled down to 0..MaxUint64; a      *)
(* float64 holds every small count exactly and rounds MaxUint64 up to the  *)
(* next power of two, which no uint64 holds: converting that back is       *)
(* left to the platform, so the outcome f2u is chosen by the environment.  *)

MaxUint64 == 255

Uint64Sub(a, b) == (a - b) % (MaxUint64 + 1)

Float64(u) == IF u = MaxUint64 THEN MaxUint64 + 1 ELSE u

Uint64(f, f2u) == IF f > MaxUint64 THEN f2u ELSE f

MathMin(x, y) == IF x < y THEN x ELSE y

ToLower(s) ==
    CASE s = "Bytes" -> "bytes"
      [] s = "BYTES" -> "bytes"
      [] OTHER -> s

EqualFold(s, t) == ToLower(s) = ToLower(t)

Range(unit, from, to) == [Unit |-> unit, From |-> from, To |-> to]

NoRange == [Unit |-> "", From |-> 0, To |-> 0]

(* strconv.ParseUint yields the largest uint64, and an error ParseRange    *)
(* ignores, for digits that denote a larger number.                        *)
ParseUint(n) == IF n > MaxUint64 THEN MaxUint64 ELSE n

(* The header is the list of the pieces the expression of rangeRe tells    *)
(* apart: unit, separator, from, dash and, when there is one, to.          *)
ParseRange(raw) ==
    IF ~(Len(raw) \in {4, 5} /\ raw[1] # "" /\ raw[2] = "=" /\ raw[4] = "-")
    THEN [err |-> TRUE, rg |-> NoRange]
    ELSE IF Len(raw) = 5
    THEN IF ParseUint(raw[3]) > ParseUint(raw[5])
         THEN [err |-> TRUE, rg |-> NoRange]
         ELSE [err |-> FALSE,
               rg |-> Range(raw[1], ParseUint(raw[3]), ParseUint(raw[5]))]
    ELSE [err |-> FALSE, rg |-> Range(raw[1], ParseUint(raw[3]), MaxUint64)]

RangeLen(r) == Uint64Sub(r.To, r.From)

validate(r, units) == \E i \in DOMAIN units : EqualFold(r.Unit, units[i])

ContentRange(hasRange, rg, total) ==
    [hasRange |-> hasRange, rg |-> rg, Total |-> total]

ContentRangeString(cr) ==
    IF cr.Total = 0 THEN "*/*"
    ELSE IF ~cr.hasRange THEN "*/" \o ToString(cr.Total)
    ELSE cr.rg.Unit \o " " \o ToString(cr.rg.From) \o "-"
             \o ToString(cr.rg.To) \o "/" \o ToString(cr.Total)

RequestedRangeNotSatisfiable(cr) ==
    [NewError(416) EXCEPT
        !.Header = addVary(HeaderSet(@, "Content-Range",
                                     ContentRangeString(cr)), "Range")]

adjust(r, count, f2u) ==
    IF r.From > count
    THEN [err |-> RequestedRangeNotSatisfiable(
                      ContentRange(FALSE, NoRange, count)),
          rg |-> r]
    ELSE [err |-> NoError,
          rg |-> [r EXCEPT !.To =
                     Uint64(MathMin(Float64(r.To),
                                    Float64(Uint64Sub(count, 1))), f2u)]]

----------------------------------------------------------------------------
(* Compression format.  strings.Contains is tabulated over the values of   *)
(* Accept-Encoding that requests carry.                                    *)

Contains(s, substr) ==
    CASE s = "gzip" -> substr = "gzip"
      [] s = "deflate" -> substr = "deflate"
      [] s = "gzip, deflate" -> substr \in {"gzip", "deflate"}
      [] s = "deflate, gzip" -> substr \in {"gzip", "deflate"}
      [] s = "x-gzip" -> substr = "gzip"
      [] OTHER -> FALSE

(* Faulty variant: deflate is preferred to gzip.                           *)
getCompressionFormatDeflateFirst(b, r) ==
    IF b.len < CompressionThreshold THEN ""
    ELSE IF Contains(r.AcceptEncoding, flateCompression)
    THEN flateCompression
    ELSE IF Contains(r.AcceptEncoding, gzipCompression) THEN gzipCompression
    ELSE ""

getCompressionFormat(b, r) ==
    IF b.len < CompressionThreshold THEN ""
    ELSE IF Contains(r.AcceptEncoding, gzipCompression) THEN gzipCompression
    ELSE IF Contains(r.AcceptEncoding, flateCompression)
    THEN flateCompression
    ELSE ""

----------------------------------------------------------------------------
(* Writing a resource.                                                     *)

SplitSemicolon(s) ==
    CASE s = "b;a" -> <<"b", "a">>
      [] s = "a;b" -> <<"a", "b">>
      [] OTHER -> <<s>>

Now == MaxSecond * TicksPerSecond

TTL == TicksPerSecond

NotModified(w) == Write(WriteHeader(w, 304), noContent)

(* An Envelope is a resource that is its own http.Handler: it marshals    *)
(* its projection, adds the headers of its own header set (none after     *)
(* NewEnvelope) and writes status and body as writeResource does.          *)
envelopeBody(w, r, b) ==
    IF ToUpper(r.method) = Post THEN Write(WriteHeader(w, 201), b)
    ELSE IF b.len = 0 THEN WriteHeader(w, 204)
    ELSE IF ToUpper(r.method) = HeadMethod
    THEN WriteHeader(w, IF HeaderGet(w.hdr, "Content-Range") # "" THEN 206 ELSE 200)
    ELSE Write(WriteHeader(w, IF HeaderGet(w.hdr, "Content-Range") # ""
                              THEN 206 ELSE 200), b)

envelopeHeaders(hdr, m, r) ==
    LET h == HeaderSet(hdr, "Content-Type", m.ct)
        compression == getCompressionFormat(m.b, r)
    IN  IF compression # "" THEN HeaderSet(h, "Content-Encoding", compression)
        ELSE h

EnvelopeServeHTTP(e, w, r) ==
    LET m == MarshalResource(e.name, e.len, e.stringer, r) IN
    IF m.err # NoError THEN writeError(m.err, w, r)
    ELSE envelopeBody([w EXCEPT !.hdr = envelopeHeaders(@, m, r)], r, m.b)

NewEnvelope(etag, lastModified, len) ==
    Resource("envelope", etag, lastModified, len, TRUE, TRUE, FALSE, 0)

(* Any other resource that is an http.Handler writes what it pleases.      *)
resourceServeHTTP(resource, w, r) ==
    IF resource.name = "envelope" THEN EnvelopeServeHTTP(resource, w, r)
    ELSE Write(w, Bytes(resource.len, resource.name, "raw"))

contentEncoding(hdr, compression) ==
    IF compression # ""
    THEN addVary(HeaderSet(hdr, "Content-Encoding", compression),
                 "Accept-Encoding")
    ELSE hdr

statusFor(hdr) == IF HeaderGet(hdr, "Content-Range") # "" THEN 206 ELSE 200

(* Faulty variant: a HEAD is answered before the body is looked at.        *)
writeBodyHeadFirst(w, r, b) ==
    IF ToUpper(r.method) = HeadMethod
    THEN Write(WriteHeader(w, 200), noContent)
    ELSE IF ToUpper(r.method) = Post THEN Write(WriteHeader(w, 201), b)
    ELSE IF b.len = 0 THEN Write(WriteHeader(w, 204), noContent)
    ELSE Write(WriteHeader(w, statusFor(w.hdr)), b)

writeBody(w, r, b) ==
    IF ToUpper(r.method) = Post THEN Write(WriteHeader(w, 201), b)
    ELSE IF b.len = 0 THEN Write(WriteHeader(w, 204), noContent)
    ELSE IF ToUpper(r.method) = HeadMethod
    THEN Write(WriteHeader(w, statusFor(w.hdr)), noContent)
    ELSE Write(WriteHeader(w, statusFor(w.hdr)), b)

writeEncoded(m, w, r) ==
    writeBody([w EXCEPT !.hdr =
                  contentEncoding(HeaderSet(@, "Content-Type", m.ct),
                                  getCompressionFormat(m.b, r))],
              r, m.b)

writeMarshalled(m, w, r) ==
    IF m.err # NoError THEN writeError(m.err, w, r)
    ELSE writeEncoded(m, w, r)

notModifiedSince(t, lastModified) == ~t.err /\ t.t - lastModified >= 0

noneMatch(entries, etag) == \E i \in DOMAIN entries : entries[i] = etag

resourceHeaders(resource, hdr) ==
    HeaderSet(HeaderSet(HeaderSet(addVary(hdr, "Accept"),
                                  "Last-Modified",
                                  FormatTime(resource.lastModified)),
                        "ETag", resource.etag),
              "Expires", FormatTime(Now + TTL))

writeFresh(resource, w, r) ==
    IF resource.handler THEN resourceServeHTTP(resource, w, r)
    ELSE writeMarshalled(Marshal(resource, r),
                         Logged(w, [op |-> "Marshal", code |-> 0]), r)

writeResource(resource, w, r) ==
    IF notModifiedSince(ParseTime(r.IfModifiedSince), resource.lastModified)
    THEN NotModified(w)
    ELSE IF noneMatch(SplitSemicolon(r.IfNoneMatch), resource.etag)
    THEN NotModified(w)
    ELSE writeFresh(resource,
                    [w EXCEPT !.hdr = resourceHeaders(resource, @)], r)

----------------------------------------------------------------------------
(* The endpoint operations are the application's: what the invoked one     *)
(* returns is an input of the exchange, app (app.called tells whether the  *)
(* application's function ran, or an adapter answered in its place).  The  *)
(* method handlers wrap them.  A mapEndpoint lists its methods by ranging  *)
(* over its map, in an order chosen anew by each range loop: app.order is  *)
(* the order met by the method handlers, app.corsOrder the order met by    *)
(* the access control handler.                                             *)

Invoked(w, app, op) == IF app.called THEN Called(w, op) ELSE w

Partial(resource, app) ==
    Resource("part", app.partialETag, resource.lastModified, app.partialLen,
             resource.stringer, FALSE, FALSE, 0)

(* GetFunc serves the resource whole when it is no Ranger, when the Range  *)
(* header does not parse or names a unit the Ranger does not support, and  *)
(* when If-Range is present and is neither the date nor the ETag.          *)
ifRangeFails(raw, resource) ==
    /\ raw # ""
    /\ ParseTime(raw).t # resource.lastModified
    /\ raw # resource.etag

(* Faulty variant: the unit of the range is not validated.                 *)
servesWholeAnyUnit(p, resource, r) ==
    \/ ~resource.ranger
    \/ p.err
    \/ ifRangeFails(r.IfRange, resource)

servesWhole(p, resource, r) ==
    \/ ~resource.ranger
    \/ p.err
    \/ ~validate(p.rg, Units)
    \/ ifRangeFails(r.IfRange, resource)

acceptRanges(w, resource) ==
    IF resource.ranger
    THEN [w EXCEPT !.hdr = HeaderSet(@, "Accept-Ranges", Join(Units, ", "))]
    ELSE w

(* Faulty variant: Vary: Range is left out.                                *)
partialHeadersNoVary(hdr, cr) ==
    HeaderSet(hdr, "Content-Range", ContentRangeString(cr))

partialHeaders(hdr, cr) ==
    HeaderSet(addVary(hdr, "Range"), "Content-Range", ContentRangeString(cr))

(* Ranger.Range answers an adjusted range a with ContentRange{a, Count()}  *)
(* and the sub-resource for it.                                            *)
writePartial(a, resource, w, r, app) ==
    IF a.err # NoError THEN writeError(a.err, w, r)
    ELSE writeResource(Partial(resource, app),
                       [Called(w, "Range") EXCEPT !.hdr =
                           partialHeaders(@, ContentRange(TRUE, a.rg,
                                                          resource.count))],
                       r)

getResource(p, resource, w, r, app) ==
    IF servesWhole(p, resource, r) THEN writeResource(resource, w, r)
    ELSE writePartial(adjust(p.rg, resource.count, app.f2u), resource, w, r,
                      app)

GetFuncServeHTTP(w, r, app) ==
    CASE app.result = "panic" ->
           [Invoked(w, app, "Get") EXCEPT !.panicked = TRUE]
      [] app.result \in {"Error", "error"} ->
           writeError(app.err, Invoked(w, app, "Get"), r)
      [] app.result = "nil" ->
           Write(WriteHeader(Invoked(w, app, "Get"), 204), noContent)
      [] OTHER ->
           getResource(ParseRange(r.Range), app.resource,
                       acceptRanges(Invoked(w, app, "Get"), app.resource),
                       r, app)

PutFuncServeHTTP(w, r, app) ==
    CASE app.result = "panic" ->
           [Invoked(w, app, "Put") EXCEPT !.panicked = TRUE]
      [] app.result \in {"Error", "error"} ->
           writeError(app.err, Invoked(w, app, "Put"), r)
      [] app.result = "nil" ->
           Write(WriteHeader(Invoked(w, app, "Put"), 200), noContent)
      [] OTHER ->
           writeResource(app.resource,
                         WriteHeader(Invoked(w, app, "Put"), 200), r)

PatchFuncServeHTTP(w, r, app) ==
    CASE app.result = "panic" ->
           [Invoked(w, app, "Patch") EXCEPT !.panicked = TRUE]
      [] app.result \in {"Error", "error"} ->
           writeError(app.err, Invoked(w, app, "Patch"), r)
      [] app.result = "nil" ->
           Write(WriteHeader(Invoked(w, app, "Patch"), 200), noContent)
      [] OTHER ->
           writeResource(app.resource,
                         WriteHeader(Invoked(w, app, "Patch"), 200), r)

setLocation(w, app) ==
    IF app.location # ""
    THEN [w EXCEPT !.hdr = HeaderSet(@, "Location", app.location)]
    ELSE w

PostFuncServeHTTP(w, r, app) ==
    CASE app.result = "panic" ->
           [Invoked(w, app, "Post") EXCEPT !.panicked = TRUE]
      [] app.result \in {"Error", "error"} ->
           writeError(app.err, Invoked(w, app, "Post"), r)
      [] app.result = "nil" ->
           Write(WriteHeader(setLocation(Invoked(w, app, "Post"), app), 201),
                 noContent)
      [] OTHER ->
           writeResource(app.resource,
                         setLocation(Invoked(w, app, "Post"), app), r)

DeleteFuncServeHTTP(w, r, app) ==
    CASE app.result = "panic" ->
           [Invoked(w, app, "Delete") EXCEPT !.panicked = TRUE]
      [] app.result \in {"Error", "error"} ->
           writeError(app.err, Invoked(w, app, "Delete"), r)
      [] OTHER ->
           Write(WriteHeader(Invoked(w, app, "Delete"), 204), noContent)

----------------------------------------------------------------------------
(* Endpoints.  An endpoint is the set of capabilities its type implements; *)
(* a mapEndpoint implements all five over a map from method to the handler *)
(* registered for it, and lists its methods itself, in the iteration order *)
(* of the map (order, chosen by the environment).                          *)

Capabilities == {"Get", "Patch", "Put", "Post", "Delete"}

NoMap == [k \in {} |-> ""]

Endpoint(caps, preflighter) ==
    [caps |-> caps, preflighter |-> preflighter, lister |-> FALSE, m |-> NoMap]

handleMethod(m, method, handler) ==
    [k \in DOMAIN m \cup {method} |-> IF k = method THEN handler ELSE m[k]]

MuxGet(m) == handleMethod(m, Get, "GetFunc")
MuxPost(m) == handleMethod(m, Post, "PostFunc")
MuxPut(m) == handleMethod(m, Put, "PutFunc")
MuxPatch(m) == handleMethod(m, Put, "PatchFunc")
MuxDelete(m) == handleMethod(m, Delete, "DeleteFunc")

mapEndpoint(m) ==
    [caps |-> Capabilities, preflighter |-> FALSE, lister |-> TRUE, m |-> m]

allowedMethods(e, order) ==
    IF Get \in DOMAIN e.m THEN Append(order, HeadMethod) ELSE order

mapEndpointCall(e, r, app, func) ==
    IF r.method \notin DOMAIN e.m
    THEN IF func = "DeleteFunc"
         THEN [app EXCEPT !.result = "nil", !.err = NoError, !.called = FALSE]
         ELSE [app EXCEPT !.result = "Error", !.called = FALSE,
                  !.err = MethodNotAllowed(r.method,
                                           allowedMethods(e, app.order))]
    ELSE IF e.m[r.method] # func
    THEN [app EXCEPT !.result = "panic", !.err = NoError, !.called = FALSE]
    ELSE app

EndpointCall(e, r, app, func) ==
    IF e.lister THEN mapEndpointCall(e, r, app, func) ELSE app

getMethodHandler(endpoint, method) ==
    LET m == ToUpper(method) IN
    CASE m = Options -> "options"
      [] m \in {HeadMethod, Get} /\ "Get" \in endpoint.caps -> "GetFunc"
      [] m = Patch /\ "Patch" \in endpoint.caps -> "PatchFunc"
      [] m = Put /\ "Put" \in endpoint.caps -> "PutFunc"
      [] m = Post /\ "Post" \in endpoint.caps -> "PostFunc"
      [] m = Delete /\ "Delete" \in endpoint.caps -> "DeleteFunc"
      [] OTHER -> "nil"

RECURSIVE probe(_, _)
probe(endpoint, methods) ==
    IF methods = <<>> THEN <<>>
    ELSE IF getMethodHandler(endpoint, methods[1]) # "nil"
    THEN <<methods[1]>> \o probe(endpoint, Tail(methods))
    ELSE probe(endpoint, Tail(methods))

AllowedMethods(endpoint, order) ==
    IF endpoint.lister THEN allowedMethods(endpoint, order)
    ELSE probe(endpoint, supportedMethods)

(* Faulty variant: the Allow header is left out.                           *)
optionsHeadersNoAllow(hdr, allowed) ==
    HeaderSet(hdr, "Content-Type", Join(alternatives, ";"))

optionsHeaders(hdr, allowed) ==
    HeaderSet(HeaderSet(hdr, "Allow", Join(allowed, ", ")),
              "Content-Type", Join(alternatives, ";"))

optionsHandler(endpoint, w, r, app) ==
    IF r.method # Options THEN Write(w, noContent)
    ELSE Write(WriteHeader(
                   [w EXCEPT !.hdr =
                       optionsHeaders(@, AllowedMethods(endpoint, app.order))],
                   204),
               noContent)

(* Faulty variant: every unhandled method is answered 404.                 *)
noMethodHandlerNotFound(method, allowed) == NotFound

noMethodHandler(method, allowed) ==
    IF Len(allowed) > 0 THEN MethodNotAllowed(method, allowed) ELSE NotFound

methodHandlerServeHTTP(methodHandler, endpoint, w, r, app) ==
    CASE methodHandler = "nil" ->
           ErrorServeHTTP(
               noMethodHandler(r.method, AllowedMethods(endpoint, app.order)),
               w, r)
      [] methodHandler = "options" -> optionsHandler(endpoint, w, r, app)
      [] methodHandler = "GetFunc" ->
           GetFuncServeHTTP(w, r, EndpointCall(endpoint, r, app, "GetFunc"))
      [] methodHandler = "PatchFunc" ->
           PatchFuncServeHTTP(w, r, EndpointCall(endpoint, r, app, "PatchFunc"))
      [] methodHandler = "PutFunc" ->
           PutFuncServeHTTP(w, r, EndpointCall(endpoint, r, app, "PutFunc"))
      [] methodHandler = "PostFunc" ->
           PostFuncServeHTTP(w, r, EndpointCall(endpoint, r, app, "PostFunc"))
      [] methodHandler = "DeleteFunc" ->
           DeleteFuncServeHTTP(w, r, EndpointCall(endpoint, r, app, "DeleteFunc"))

endpointHandlerServeHTTP(endpoint, w, r, app) ==
    methodHandlerServeHTTP(getMethodHandler(endpoint, r.method), endpoint,
                           w, r, app)

----------------------------------------------------------------------------
(* CORS.  A slice is nil, or a list of items that may be empty.            *)

NilSlice == [isNil |-> TRUE, items |-> <<>>]

Slice(items) == [isNil |-> FALSE, items |-> items]

AccessControlResponse(origin, exposed, methods, allowed, credentials, maxAge) ==
    [ Origin |-> origin, ExposedHeaders |-> exposed, Methods |-> methods,
      AllowedHeaders |-> allowed, Credentials |-> credentials,
      MaxAge |-> maxAge ]

NoPolicy ==
    [ Origin |-> "nil", ExposedHeaders |-> NilSlice, Methods |-> NilSlice,
      AllowedHeaders |-> NilSlice, Credentials |-> FALSE, MaxAge |-> 0 ]

DefaultAccessControl ==
    AccessControlResponse("*", Slice(<<"Etag">>), NilSlice, NilSlice, TRUE, 86400)

PermissiveAccessControl ==
    AccessControlResponse("*", Slice(<<"Etag">>), Slice(<<>>), Slice(<<>>),
                          TRUE, 86400)

normalizeHeaderArray(headers) ==
    [i \in DOMAIN headers |-> CanonicalHeaderKey(headers[i])]

FormatBool(b) == IF b THEN "true" ELSE "false"

ParseAccessControlRequest(r) ==
    [ Origin |-> IF r.Origin = <<>> THEN "" ELSE r.Origin[1],
      Method |-> r.ACRMethod,
      Headers |-> r.ACRHeaders ]

NilEndpoint == Endpoint({}, FALSE)

callsPreflight(endpoint, r) ==
    endpoint.preflighter /\ ToUpper(r.method) = Options

allowOrigin(hdr, acr) ==
    IF acr.Origin # ""
    THEN HeaderSet(hdr, "Access-Control-Allow-Origin", acr.Origin)
    ELSE hdr

allowCredentials(hdr, acr) ==
    HeaderSet(hdr, "Access-Control-Allow-Credentials",
              FormatBool(acr.Credentials))

exposeHeaders(hdr, acr) ==
    IF Len(acr.ExposedHeaders.items) > 0
    THEN HeaderSet(hdr, "Access-Control-Expose-Headers",
                   Join(normalizeHeaderArray(acr.ExposedHeaders.items), ", "))
    ELSE hdr

maxAge(hdr, acr) ==
    HeaderSet(hdr, "Access-Control-Max-Age", ToString(acr.MaxAge))

(* Faulty variant: the methods are listed although none was requested.    *)
allowMethodsUnasked(hdr, acr, request, allowed) ==
    IF ~acr.Methods.isNil
    THEN HeaderSet(hdr, "Access-Control-Allow-Methods",
                   Join(IF Len(acr.Methods.items) = 0 THEN allowed
                        ELSE acr.Methods.items, ", "))
    ELSE hdr

allowMethods(hdr, acr, request, allowed) ==
    IF request.Method # "" /\ ~acr.Methods.isNil
    THEN HeaderSet(hdr, "Access-Control-Allow-Methods",
                   Join(IF Len(acr.Methods.items) = 0 THEN allowed
                        ELSE acr.Methods.items, ", "))
    ELSE hdr

allowHeaders(hdr, acr, request) ==
    IF Len(request.Headers) > 0 /\ ~acr.AllowedHeaders.isNil
    THEN HeaderSet(hdr, "Access-Control-Allow-Headers",
                   Join(normalizeHeaderArray(
                            IF Len(acr.AllowedHeaders.items) = 0
                            THEN request.Headers
                            ELSE acr.AllowedHeaders.items), ", "))
    ELSE hdr

(* Faulty variant: Vary: Origin is added whatever the allowed origin.      *)
varyOriginAlways(hdr) == addVary(hdr, "Origin")

varyOrigin(hdr) ==
    IF HeaderGet(hdr, "Access-Control-Allow-Origin") \notin {"", "*"}
    THEN addVary(hdr, "Origin")
    ELSE hdr

simpleHeaders(hdr, acr) ==
    exposeHeaders(allowCredentials(allowOrigin(hdr, acr), acr), acr)

preflightHeaders(hdr, acr, request, allowed) ==
    allowHeaders(allowMethods(maxAge(hdr, acr), acr, request, allowed),
                 acr, request)

accessControlHeaders(endpoint, acr, hdr, r, app) ==
    varyOrigin(
        IF ToUpper(r.method) # Options THEN simpleHeaders(hdr, acr)
        ELSE preflightHeaders(simpleHeaders(hdr, acr), acr,
                              ParseAccessControlRequest(r),
                              AllowedMethods(endpoint, app.corsOrder)))

accessControlHandlerServeHTTP(endpoint, policy, w, r, app) ==
    IF r.Origin = <<>> THEN w
    ELSE IF callsPreflight(endpoint, r)
    THEN [Called(w, "Preflight") EXCEPT !.hdr =
             accessControlHeaders(endpoint, app.preflight, @, r, app)]
    ELSE [w EXCEPT !.hdr = accessControlHeaders(endpoint, policy, w.hdr, r, app)]

(* The headers arrays of the policy are canonicalised in place when they   *)
(* are written.                                                            *)
policyAfter(endpoint, policy, r) ==
    IF r.Origin = <<>> \/ callsPreflight(endpoint, r) THEN policy
    ELSE LET p1 == [policy EXCEPT !.ExposedHeaders.items =
                                      normalizeHeaderArray(@)]
         IN  IF ToUpper(r.method) = Options
                /\ Len(r.ACRHeaders) > 0 /\ ~policy.AllowedHeaders.isNil
             THEN [p1 EXCEPT !.AllowedHeaders.items = normalizeHeaderArray(@)]
             ELSE p1

----------------------------------------------------------------------------
(* The Mux.  The router's match is an input of the exchange: no route, a   *)
(* plain http.Handler, or an endpoint handler.  A panic raised while the   *)
(* handler runs is recovered and answered on the unwrapped writer; the     *)
(* server completes an exchange whose handler never wrote a status.        *)

Route(kind, endpoint) == [kind |-> kind, endpoint |-> endpoint]

plainHandler(w, r, app) ==
    IF app.result = "panic" THEN [w EXCEPT !.panicked = TRUE]
    ELSE Write(w, Bytes(1, "plain", "raw"))

finishRequest(w) ==
    IF w.wroteHeader THEN w
    ELSE [w EXCEPT !.wroteHeader = TRUE, !.status = 200, !.sent = w.hdr]

(* Faulty variant: the access control handler runs without a policy.       *)
accessControlAlways(policy, endpoint, w, r, app) ==
    accessControlHandlerServeHTTP(endpoint, policy, w, r, app)

accessControl(policy, endpoint, w, r, app) ==
    IF policy # NoPolicy
    THEN accessControlHandlerServeHTTP(endpoint, policy, w, r, app)
    ELSE w

matchServeHTTP(route, w, r, app) ==
    IF route.kind = "endpoint"
    THEN endpointHandlerServeHTTP(route.endpoint, newResponseWriter(w), r, app)
    ELSE plainHandler(newResponseWriter(w), r, app)

routeEndpoint(route) ==
    IF route.kind = "endpoint" THEN route.endpoint ELSE NilEndpoint

handled(panicked, answer, w) == IF panicked THEN answer ELSE w

recover(w, debug, r) ==
    handled(w.panicked,
            ErrorServeHTTP(InternalServerError(debug),
                           [w EXCEPT !.wrapped = FALSE], r),
            w)

notFoundOr(route, w, r, served) ==
    IF route.kind = "none" THEN ErrorServeHTTP(NotFound, w, r) ELSE served

MuxServeHTTP(policy, debug, route, r, app) ==
    [ w |-> finishRequest(
                notFoundOr(route, rawResponseWriter(r.method), r,
                    recover(
                        matchServeHTTP(route,
                            accessControl(policy, routeEndpoint(route),
                                          rawResponseWriter(r.method), r, app),
                            r, app),
                        debug, r))),
      ac |-> IF route.kind # "none" /\ policy # NoPolicy
             THEN policyAfter(routeEndpoint(route), policy, r)
             ELSE policy ]

----------------------------------------------------------------------------
(* Requests and application outcomes.                                      *)

Request(method, accept, acceptEncoding, range, ifRange, ifModifiedSince, ifNoneMatch, origin, acrMethod, acrHeaders) ==
    [ method |-> method, Accept |-> accept,
      AcceptEncoding |-> acceptEncoding, Range |-> range,
      IfRange |-> ifRange, IfModifiedSince |-> ifModifiedSince,
      IfNoneMatch |-> ifNoneMatch, Origin |-> origin,
      ACRMethod |-> acrMethod, ACRHeaders |-> acrHeaders ]

App(result, err, resource, location, partialETag, partialLen, f2u, order, preflight) ==
    [ result |-> result, err |-> err, called |-> TRUE, resource |-> resource,
      location |-> location, partialETag |-> partialETag,
      partialLen |-> partialLen, f2u |-> f2u, order |-> order,
      corsOrder |-> order, preflight |-> preflight ]

Outcome(result, resource) ==
    App(result,
        CASE result = "Error" -> NewError(412)
          [] result = "error" -> GoError
          [] OTHER -> NoError,
        resource, "", "", 0, 0, <<>>, NoPolicy)

Doc == Resource("doc", "a", TicksPerSecond, 1, TRUE, FALSE, FALSE, 0)

Results == {"nil", "resource", "Error", "error", "panic"}

Orders(S) ==
    {o \in UNION {[1..n -> S] : n \in {Cardinality(S)}} :
        \A i, j \in DOMAIN o : i # j => o[i] # o[j]}

NoRequest ==
    [ served |-> FALSE, route |-> Route("none", NilEndpoint),
      r |-> Request("", NoAccept, "", <<>>, "", "", "", <<>>, "", <<>>),
      app |-> Outcome("nil", NilResource),
      policy |-> NoPolicy, debug |-> FALSE ]

(* The state after NewMux(): CORS disabled, Debug off, nothing served.     *)
Init ==
    /\ ac = NoPolicy
    /\ Debug = FALSE
    /\ req = NoRequest
    /\ resp = rawResponseWriter("")

(* The Mux is configured between exchanges.                                *)
SetCORSPolicy(policy) ==
    /\ ~req.served
    /\ ac' = policy
    /\ UNCHANGED <<Debug, req, resp>>

SetDebug(b) ==
    /\ ~req.served
    /\ Debug' = b
    /\ UNCHANGED <<ac, req, resp>>

(* One exchange, served when none is in progress: req records the         *)
(* request, the route it matched, what the application answered and the    *)
(* configuration the Mux served it under; resp is the writer as the        *)
(* exchange left it.                                                       *)
exchange(route, r, app, out) ==
    /\ req' = [served |-> TRUE, route |-> route, r |-> r, app |-> app,
               policy |-> ac, debug |-> Debug]
    /\ resp' = out.w
    /\ ac' = out.ac
    /\ UNCHANGED Debug

ServeHTTP(route, r, app) ==
    exchange(route, r, app, MuxServeHTTP(ac, Debug, route, r, app))

(* The client has read the response; the next request can be served.       *)
Complete ==
    /\ req.served
    /\ req' = NoRequest
    /\ resp' = rawResponseWriter("")
    /\ UNCHANGED <<ac, Debug>>

----------------------------------------------------------------------------
(* The dispatch specification: a Mux whose CORS policy and Debug flag are  *)
(* set at will, serving requests of every method to endpoints of every     *)
(* capability set, to endpoints registered method by method, to a plain    *)
(* handler and to no route at all.                                         *)

CustomAccessControl ==
    AccessControlResponse("http://example.com", NilSlice,
                          Slice(<<"GET", "POST">>), Slice(<<"x-custom">>),
                          FALSE, 60)

BareAccessControl ==
    AccessControlResponse("", Slice(<<"etag">>), NilSlice, NilSlice, TRUE, 0)

Policies ==
    { NoPolicy, DefaultAccessControl, PermissiveAccessControl,
      CustomAccessControl, BareAccessControl }

PreflightResponse ==
    AccessControlResponse("http://morning.example.com", NilSlice,
                          Slice(<<"GET">>), NilSlice, FALSE, 0)

RegisteredMaps ==
    { MuxGet(NoMap), MuxPost(MuxGet(NoMap)), MuxDelete(MuxPatch(NoMap)),
      MuxPut(NoMap), MuxPatch(MuxPut(NoMap)) }

DispatchRoutes ==
    { Route("none", NilEndpoint), Route("plain", NilEndpoint) }
    \cup { Route("endpoint", Endpoint(caps, FALSE)) : caps \in SUBSET Capabilities }
    \cup { Route("endpoint", Endpoint(caps, TRUE)) : caps \in {{}, {"Post"}} }
    \cup { Route("endpoint", mapEndpoint(m)) : m \in RegisteredMaps }

DispatchMethods ==
    { Options, HeadMethod, Get, Patch, Put, Post, Delete,
      "get", "options", "TRACE" }

Origins == { <<>>, <<"http://example.com">> }

Accepts == { NoAccept, <<AcceptPart("text", TRUE, "html", 10)>> }

DispatchRequests ==
    { Request(m, a, "", <<>>, "", "", "", o, pm, ph) :
        m \in DispatchMethods, a \in Accepts, o \in Origins,
        pm \in {"", Put}, ph \in {<<>>, <<"x-custom">>} }

Preflighted(r) == ToUpper(r.method) = Options /\ r.Origin # <<>>

(* The outcomes that matter to an exchange: those of the operation the     *)
(* request reaches, the iteration order of a mapEndpoint's map, and the    *)
(* answer of Preflight when it is asked.                                   *)
(* "traced" is the operation answering InternalServerError with its stack  *)
(* captured.                                                               *)
Answer(res) ==
    IF res = "traced"
    THEN [Outcome("Error", NilResource) EXCEPT !.err = InternalServerError(TRUE)]
    ELSE Outcome(res, IF res = "resource" THEN Doc ELSE NilResource)

DispatchApps(route, r) ==
    LET h == IF route.kind = "endpoint"
             THEN getMethodHandler(route.endpoint, r.method)
             ELSE "plain"
        results == IF h \in {"nil", "options"} THEN {"nil"}
                   ELSE IF h = "plain" THEN {"nil", "panic"}
                   ELSE Results \cup {"traced"}
        orders == Orders(DOMAIN route.endpoint.m)
        pre == IF callsPreflight(route.endpoint, r) /\ r.Origin # <<>>
               THEN PreflightResponse ELSE NoPolicy
        corsOrders == IF Preflighted(r) THEN orders ELSE {<<>>}
    IN  { [Answer(res)
              EXCEPT !.order = o, !.preflight = pre,
                     !.corsOrder = IF co = <<>> THEN o ELSE co] :
            res \in results, o \in orders, co \in corsOrders }

ServeDispatch ==
    /\ ~req.served
    /\ \E route \in DispatchRoutes :
          \E r \in DispatchRequests :
            /\ (r.ACRMethod # "" \/ r.ACRHeaders # <<>>) => Preflighted(r)
            /\ \E app \in DispatchApps(route, r) : ServeHTTP(route, r, app)

Next ==
    \/ \E policy \in Policies : SetCORSPolicy(policy)
    \/ \E b \in BOOLEAN : SetDebug(b)
    \/ ServeDispatch
    \/ Complete

Spec == Init /\ [][Next]_vars

----------------------------------------------------------------------------
(* Properties of the dispatch specification.                               *)

Operations == {"Get", "Patch", "Put", "Post", "Delete"}

NoOperationInvoked == \A i \in DOMAIN resp.calls : resp.calls[i] \notin Operations

CapabilityFor(method) ==
    CASE method \in {Get, HeadMethod} -> "Get"
      [] method = Patch -> "Patch"
      [] method = Put -> "Put"
      [] method = Post -> "Post"
      [] method = Delete -> "Delete"

ToEndpoint == req.served /\ req.route.kind = "endpoint"

Unimplemented ==
    /\ ToEndpoint
    /\ req.r.method \in {Get, HeadMethod, Patch, Put, Post, Delete}
    /\ CapabilityFor(req.r.method) \notin req.route.endpoint.caps

AllowedNow == AllowedMethods(req.route.endpoint, req.app.order)

(* C1: a GET, HEAD, PATCH, PUT, POST or DELETE request to an endpoint that *)
(* does not implement the capability for it invokes no endpoint operation; *)
(* it is answered 405 with Allow set to the allowed methods joined by ", " *)
(* when there are any, and 404 when the endpoint implements no method.     *)
C1_MethodNotAllowed ==
    Unimplemented =>
        /\ NoOperationInvoked
        /\ Len(AllowedNow) > 0 =>
              /\ resp.status = 405
              /\ resp.sent["Allow"] = <<Join(AllowedNow, ", ")>>
        /\ req.route.endpoint.caps = {} <=> Len(AllowedNow) = 0
        /\ req.route.endpoint.caps = {} => resp.status = 404

C1_Witness ==
    /\ Unimplemented
    /\ req.r.method = Post
    /\ req.route.endpoint.caps = {"Get", "Delete"}
    /\ resp.status = 405
    /\ resp.sent["Allow"] = <<"HEAD, GET, DELETE">>

(* C2: an OPTIONS request to an endpoint, whatever its capabilities, is    *)
(* answered 204 with an empty body, Allow set to the endpoint's allowed    *)
(* methods and Content-Type to the list of negotiable alternatives, and    *)
(* invokes none of Get, Post, Put, Patch, Delete.                          *)
C2_Options ==
    (ToEndpoint /\ req.r.method = Options) =>
        /\ resp.status = 204
        /\ resp.body = <<>>
        /\ resp.sent["Allow"] = <<Join(AllowedNow, ", ")>>
        /\ resp.sent["Content-Type"] = <<Join(alternatives, ";")>>
        /\ NoOperationInvoked

C2_Witness ==
    /\ ToEndpoint
    /\ req.r.method = Options
    /\ req.route.endpoint.caps = {}
    /\ resp.status = 204
    /\ resp.sent["Allow"] = <<"">>

AccessControlKeys ==
    { "Access-Control-Allow-Origin", "Access-Control-Allow-Credentials",
      "Access-Control-Expose-Headers", "Access-Control-Max-Age",
      "Access-Control-Allow-Methods", "Access-Control-Allow-Headers" }

VaryHas(hdr, value) == \E i \in DOMAIN hdr["Vary"] : hdr["Vary"][i] = value

(* C9: when the Mux has no CORS policy, or the request has no Origin       *)
(* header, the response has no Access-Control-* header and no Vary:        *)
(* Origin, whether an endpoint handler or a plain handler served it.       *)
C9_NoAccessControl ==
    (req.served /\ (req.policy = NoPolicy \/ req.r.Origin = <<>>)) =>
        /\ \A k \in AccessControlKeys : resp.sent[k] = <<>> /\ resp.hdr[k] = <<>>
        /\ ~VaryHas(resp.sent, "Origin")
        /\ ~VaryHas(resp.hdr, "Origin")

C9_Witness ==
    /\ req.served
    /\ req.policy = NoPolicy
    /\ req.r.Origin # <<>>
    /\ req.route.kind = "plain"
    /\ resp.status = 200

SimpleCrossOrigin ==
    /\ req.served
    /\ req.policy # NoPolicy
    /\ req.r.Origin # <<>>
    /\ ToUpper(req.r.method) # Options

PreflightOnlyAbsent ==
    /\ resp.sent["Access-Control-Max-Age"] = <<>>
    /\ resp.sent["Access-Control-Allow-Methods"] = <<>>
    /\ resp.sent["Access-Control-Allow-Headers"] = <<>>

Exposed ==
    resp.sent["Access-Control-Expose-Headers"] # <<>>
        <=> Len(req.policy.ExposedHeaders.items) > 0

----------------------------------------------------------------------------
(* The resource specification: a Mux without CORS policy serving GET,      *)
(* HEAD, POST, PUT and PATCH requests, with conditional, range and         *)
(* encoding headers, to an endpoint of every capability whose operation    *)
(* returns resources of every kind.                                        *)

MaxCount == 3

FullEndpoint == Route("endpoint", Endpoint(Capabilities, FALSE))

ResourceMethods == { Get, HeadMethod, Post, Put, Patch }

Dates == { rfc1123(sec) : sec \in 0..MaxSecond }

ModificationTimes == { TicksPerSecond, TicksPerSecond + 1 }

AcceptEncodings ==
    { "", "gzip", "deflate", "gzip, deflate", "deflate, gzip", "x-gzip",
      "identity" }

Returns(resource) ==
    [Outcome("resource", resource) EXCEPT !.order = <<>>]

(* Conditional requests for a resource that is no Ranger.                  *)
ConditionalExchanges ==
    { <<Request(m, a, "", <<>>, "", ims, inm, <<>>, "", <<>>),
        Returns(Resource("doc", etag, lm, len, TRUE, h, FALSE, 0))>> :
        m \in ResourceMethods, a \in Accepts,
        ims \in {"", "yesterday"} \cup Dates, inm \in {"", "a", "b;a"},
        etag \in {"", "a"}, lm \in ModificationTimes, len \in {0, 1},
        h \in BOOLEAN }

(* Requests answered without a resource.                                   *)
OtherExchanges ==
    { <<Request(m, NoAccept, "", <<>>, "", "", inm, <<>>, "", <<>>),
        [Outcome(res, NilResource) EXCEPT !.order = <<>>, !.location = loc]>> :
        m \in ResourceMethods, inm \in {"", "a"},
        res \in Results \ {"resource"}, loc \in {"", "/doc/1"} }

(* Bodies around the compression threshold, for every Accept-Encoding.     *)
CompressionExchanges ==
    { <<Request(m, a, ae, <<>>, "", "", "", <<>>, "", <<>>),
        Returns(Resource("doc", "a", TicksPerSecond, len, TRUE, FALSE,
                         FALSE, 0))>> :
        m \in ResourceMethods, a \in Accepts, ae \in AcceptEncodings,
        len \in { 0, 1, CompressionThreshold - 1, CompressionThreshold,
                  CompressionThreshold + 1 } }

(* "bytes 0-1" is malformed, "items" is no unit of the Ranger.             *)
RangeHeaders ==
    { <<>>, <<"bytes", " ", 0, "-", 1>>, <<"items", "=", 0, "-", 1>>,
      <<"Bytes", "=", 0, "-", 1>> }
    \cup { <<"bytes", "=", f, "-", t>> :
             f \in 0..(MaxCount + 1), t \in 0..(MaxCount + 1) }
    \cup { <<"resources", "=", f, "-">> : f \in 0..(MaxCount + 1) }

(* A conversion out of range yields what the platform yields: it happens   *)
(* for an open range on an empty extent.                                   *)
Conversions == { 0, (MaxUint64 + 1) \div 2, MaxUint64 }

RangeInputs ==
    { x \in RangeHeaders \X (0..MaxCount) \X Conversions :
        x[3] = 0 \/ (Len(x[1]) = 4 /\ x[2] = 0) }

PartialBodies == { <<0, "">>, <<1, "">>, <<CompressionThreshold, "gzip">> }

Validators == { <<"", "">>, <<rfc1123(1), "">>, <<"", "p">> }

(* Reads of a Ranger of every extent up to MaxCount.                       *)
RangeExchanges ==
    { <<Request(m, NoAccept, pb[2], x[1], ir, v[1], v[2], <<>>, "", <<>>),
        [Returns(Resource("list", "a", lm, 2, TRUE, FALSE, TRUE, x[2]))
            EXCEPT !.partialETag = "p", !.partialLen = pb[1],
                   !.f2u = x[3]]>> :
        x \in RangeInputs, m \in {Get, HeadMethod},
        ir \in {"", "a", "z", rfc1123(1)}, v \in Validators,
        pb \in PartialBodies, lm \in ModificationTimes }

(* Operations that fail with an Error of their own.                        *)
ReturnedErrors ==
    { NewError(404), NewError(410), NewError(412),
      MethodNotAllowed(Get, <<Post>>) }

ErrorAccepts ==
    Accepts \cup
    { <<AcceptPart("*", TRUE, "*", 10)>>, <<AcceptPart("text", TRUE, "*", 10)>>,
      <<AcceptPart("application", TRUE, "json", 10)>>,
      <<AcceptPart("application", TRUE, "json", 10),
        AcceptPart("text", TRUE, "html", 5)>>,
      <<AcceptPart("application", TRUE, "xml", 10),
        AcceptPart("*", TRUE, "*", 5)>>,
      <<AcceptPart("text", TRUE, "plain", 10)>>,
      <<AcceptPart("image", TRUE, "png", 10)>> }

ErrorExchanges ==
    { <<Request(m, a, "", <<>>, "", "", "", <<>>, "", <<>>),
        [Outcome("Error", NilResource) EXCEPT !.order = <<>>, !.err = e]>> :
        m \in ResourceMethods, a \in ErrorAccepts, e \in ReturnedErrors }

(* Resources wrapped in an Envelope, around the compression threshold.     *)
EnvelopeExchanges ==
    { <<Request(m, a, ae, <<>>, "", "", "", <<>>, "", <<>>),
        Returns(NewEnvelope("a", TicksPerSecond, len))>> :
        m \in ResourceMethods, a \in Accepts, ae \in AcceptEncodings,
        len \in { 0, 1, CompressionThreshold } }

(* Resources the JSON and XML encoders fail on.                            *)
UnencodableExchanges ==
    { <<Request(m, a, "", <<>>, "", "", inm, <<>>, "", <<>>),
        Returns(Resource(Unencodable, "a", TicksPerSecond, 1, s, FALSE,
                         FALSE, 0))>> :
        m \in ResourceMethods, a \in ErrorAccepts, inm \in {"", "a"},
        s \in BOOLEAN }

ResourceExchanges ==
    ConditionalExchanges \cup OtherExchanges \cup CompressionExchanges
        \cup RangeExchanges \cup ErrorExchanges \cup EnvelopeExchanges
        \cup UnencodableExchanges

ServeResource ==
    /\ ~req.served
    /\ \E x \in ResourceExchanges : ServeHTTP(FullEndpoint, x[1], x[2])

NextResource ==
    \/ ServeResource
    \/ Complete

SpecResource == Init /\ [][NextResource]_vars

----------------------------------------------------------------------------
(* Properties of the resource specification.                               *)

Returned == req.served /\ req.app.result = "resource"

Read == Returned /\ req.r.method \in {Get, HeadMethod}

(* The Range header is well formed, names a unit of the Ranger, and the    *)
(* If-Range header, when there is one, is the ETag or the exact            *)
(* modification time of the resource.                                      *)
WellFormedRange ==
    /\ Len(req.r.Range) \in {4, 5}
    /\ req.r.Range[2] = "="
    /\ Len(req.r.Range) = 5 => req.r.Range[3] <= req.r.Range[5]

RangeRequested ==
    /\ Read
    /\ req.app.resource.ranger
    /\ WellFormedRange
    /\ ToLower(req.r.Range[1]) \in {"bytes", "resources"}
    /\ \/ req.r.IfRange \in {"", req.app.resource.etag}
       \/ /\ ~ParseTime(req.r.IfRange).err
          /\ ParseTime(req.r.IfRange).t = req.app.resource.lastModified

From == req.r.Range[3]

To == IF Len(req.r.Range) = 5 THEN req.r.Range[5] ELSE MaxUint64

Count == req.app.resource.count

(* The resource writeResource is given: the slice when a range is served.  *)
Written ==
    IF RangeRequested THEN Partial(req.app.resource, req.app)
    ELSE req.app.resource

Second(t) == t \div TicksPerSecond

NotModifiedSinceSecond ==
    /\ ~ParseTime(req.r.IfModifiedSince).err
    /\ Second(ParseTime(req.r.IfModifiedSince).t) >= Second(Written.lastModified)

NoneMatches == noneMatch(SplitSemicolon(req.r.IfNoneMatch), Written.etag)

Encoding == Marshal(Written, req.r)

BodyIs(b) ==
    IF b.len = 0 THEN resp.body = <<>>
    ELSE Len(resp.body) = 1 /\ resp.body[1].bytes = b

(* C3 as stated: a GET or HEAD that returns a resource and fails no range  *)
(* processing is answered 304 with no body when If-Modified-Since parses   *)
(* and is not earlier than LastModified at second granularity, and         *)
(* otherwise 304 when an entry of If-None-Match equals the ETag.           *)
C3_AsStated ==
    (Read /\ resp.status # 416) =>
        /\ NotModifiedSinceSecond => resp.status = 304 /\ resp.body = <<>>
        /\ (~NotModifiedSinceSecond /\ NoneMatches) => resp.status = 304

Conditional304 ==
    \/ notModifiedSince(ParseTime(req.r.IfModifiedSince), Written.lastModified)
    \/ NoneMatches

PartialRead ==
    /\ RangeRequested
    /\ From < Count
    /\ ~Conditional304
    /\ Encoding.err = NoError
    /\ Encoding.b.len > 0

PartialAnswer ==
    /\ resp.status = 206
    /\ resp.sent["Content-Range"]
           = <<req.r.Range[1] \o " " \o ToString(From) \o "-"
                 \o ToString(MathMin(To, Count - 1)) \o "/" \o ToString(Count)>>
    /\ VaryHas(resp.sent, "Range")
    /\ resp.calls = <<"Get", "Range">>

Adjusted == adjust(Range(req.r.Range[1], From, To), Count, req.app.f2u)

(* C5 as stated: for a Ranger of N items, adjust fails with a 416 whose    *)
(* Content-Range is "*/N" when from exceeds N, and otherwise leaves unit   *)
(* and from alone and sets to to min(to, N-1); the GET of a range outside  *)
(* the extent is answered 416 with that Content-Range, Range not called.   *)
C5_AsStated ==
    RangeRequested =>
        IF From > Count
        THEN /\ Adjusted.err.Code = 416
             /\ Adjusted.err.Header["Content-Range"] = <<"*/" \o ToString(Count)>>
             /\ resp.status = 416
             /\ resp.sent["Content-Range"] = <<"*/" \o ToString(Count)>>
             /\ resp.calls = <<"Get">>
        ELSE /\ Adjusted.err = NoError
             /\ Adjusted.rg.Unit = req.r.Range[1]
             /\ Adjusted.rg.From = From
             /\ Adjusted.rg.To = MathMin(To, Count - 1)

Encodable ==
    \/ req.app.result = "nil"
    \/ /\ req.app.result = "resource"
       /\ ~req.app.resource.handler
       /\ Encoding.err = NoError

(* C6 as stated: a Post that returns no error and nil, or a resource that  *)
(* encodes, is answered 201 whatever the request headers and the length    *)
(* of the body, which is empty for nil and the encoding otherwise.         *)
C6_AsStated ==
    (req.served /\ req.r.method = Post /\ Encodable) =>
        /\ resp.status = 201
        /\ req.app.result = "nil" => resp.body = <<>>
        /\ req.app.result = "resource" => BodyIs(Encoding.b)

WrittenInOrder ==
    \E i, j, k \in DOMAIN resp.log :
        /\ i < j /\ j < k
        /\ resp.log[i] = [op |-> "WriteHeader", code |-> 200]
        /\ resp.log[j] = [op |-> "Marshal", code |-> 0]
        /\ resp.log[k] = [op |-> "Write", code |-> Encoding.b.len]

(* C7 as stated: a Put or Patch that returns no error is answered 200      *)
(* whether the resource is nil or encodes to an empty or non-empty body;   *)
(* the status is written before the resource is encoded, and the encoding  *)
(* of a non-nil resource is written as the body after it.                  *)
C7_AsStated ==
    (req.served /\ req.r.method \in {Put, Patch} /\ Encodable) =>
        /\ resp.status = 200
        /\ req.app.result = "resource" => WrittenInOrder /\ BodyIs(Encoding.b)

HasGzip ==
    req.r.AcceptEncoding \in {"gzip", "gzip, deflate", "deflate, gzip", "x-gzip"}

HasDeflate ==
    req.r.AcceptEncoding \in {"deflate", "gzip, deflate", "deflate, gzip"}

ExpectedFormat ==
    IF Encoding.b.len >= CompressionThreshold /\ HasGzip THEN "gzip"
    ELSE IF Encoding.b.len >= CompressionThreshold /\ HasDeflate THEN "deflate"
    ELSE ""

EncodingWritten ==
    /\ Returned
    /\ Encoding.err = NoError
    /\ \E i \in DOMAIN resp.log : resp.log[i].op = "Marshal"

ContentEncodingIs(hdr, format) ==
    hdr["Content-Encoding"] = IF format = "" THEN <<>> ELSE <<format>>

(* C8: getCompressionFormat answers gzip for a body of at least            *)
(* CompressionThreshold bytes when Accept-Encoding contains gzip, deflate  *)
(* when it contains deflate only, and "" for a shorter body or another     *)
(* Accept-Encoding; writeResource sets Content-Encoding to the format      *)
(* exactly when it is not "".                                              *)
C8_CompressionFormat ==
    EncodingWritten =>
        /\ getCompressionFormat(Encoding.b, req.r) = ExpectedFormat
        /\ ContentEncodingIs(resp.hdr, ExpectedFormat)
        /\ req.r.method \in {Get, HeadMethod, Post}
               => ContentEncodingIs(resp.sent, ExpectedFormat)

C8_Witness ==
    /\ EncodingWritten
    /\ req.r.method = Get
    /\ req.r.AcceptEncoding = "deflate, gzip"
    /\ Encoding.b.len = CompressionThreshold
    /\ resp.sent["Content-Encoding"] = <<"gzip">>
    /\ Len(resp.body) = 1

----------------------------------------------------------------------------
(* Preflight requests, under the dispatch specification.                   *)

PreflightServed ==
    /\ req.served
    /\ req.policy # NoPolicy
    /\ req.r.Origin # <<>>
    /\ ToUpper(req.r.method) = Options
    /\ req.route.kind # "none"

(* The policy in force: Preflight's answer, or the configured policy.      *)
PolicyInForce ==
    IF req.route.kind = "endpoint" /\ req.route.endpoint.preflighter
    THEN req.app.preflight
    ELSE req.policy

MethodsAllowed == req.r.ACRMethod # "" /\ ~PolicyInForce.Methods.isNil

HeadersAllowed ==
    Len(req.r.ACRHeaders) > 0 /\ ~PolicyInForce.AllowedHeaders.isNil

MaxAgeSent ==
    resp.sent["Access-Control-Max-Age"] = <<ToString(PolicyInForce.MaxAge)>>

ListedInSomeOrder(value) ==
    \E o \in Orders(DOMAIN req.route.endpoint.m) :
        value = <<Join(AllowedMethods(req.route.endpoint, o), ", ")>>

----------------------------------------------------------------------------
(* Errors, under the resource specification.                               *)

(* An Error was written: Error.ServeHTTP called WriteHeader with its code. *)
ErrorCodes ==
    { resp.log[i].code : i \in { j \in DOMAIN resp.log :
          resp.log[j].op = "WriteHeader" /\ resp.log[j].code >= 400 } }

OwnHeadersSent(e) ==
    \A k \in HeaderKeys : \A i \in DOMAIN e.Header[k] :
        \E j \in DOMAIN resp.sent[k] : resp.sent[k][j] = e.Header[k][i]

NoCacheSent ==
    resp.sent["Cache-Control"] = <<"no-cache, no-store, must-revalidate">>

(* C12 as stated: when an Error of code C is written, the response has no  *)
(* Last-Modified, ETag or Expires header, carries the headers of the       *)
(* Error's own Header set, has Vary containing Accept, and has             *)
(* Cache-Control "no-cache, no-store, must-revalidate" exactly when C is   *)
(* neither 404 nor 410.                                                    *)
C12_AsStated ==
    (req.served /\ ErrorCodes # {}) =>
        /\ resp.sent["Last-Modified"] = <<>>
        /\ resp.sent["Etag"] = <<>>
        /\ resp.sent["Expires"] = <<>>
        /\ req.app.result = "Error" => OwnHeadersSent(req.app.err)
        /\ 416 \in ErrorCodes =>
              resp.sent["Content-Range"] # <<>> /\ VaryHas(resp.sent, "Range")
        /\ VaryHas(resp.sent, "Accept")
        /\ NoCacheSent <=> ErrorCodes \cap {404, 410} = {}

----------------------------------------------------------------------------
(* Stack traces, under the dispatch specification.                         *)

StackRendered ==
    \E i \in DOMAIN resp.body :
        resp.body[i].bytes.of = errorName(InternalServerError(TRUE))

(* The operation was reached and panicked, or answered an error that is no *)
(* *Error, which ErrorHandler turns into a panic.                          *)
PanicRecovered ==
    /\ req.served
    /\ req.app.result \in {"panic", "error"}
    /\ resp.status = 500

(* C13 as stated: with Debug false no response renders a captured stack,   *)
(* whether the 500 comes of a recovered panic, of an error that is no      *)
(* Error, or of an Error the operation returned; with Debug true the       *)
(* stack of a recovered panic is rendered (in the body, so not for HEAD).  *)
C13_AsStated ==
    req.served =>
        /\ ~req.debug => ~StackRendered
        /\ (req.debug /\ PanicRecovered /\ req.r.method # HeadMethod)
               => StackRendered

(* The part of C13 that holds: the response to a recovered panic renders   *)
(* the stack exactly when Debug is true.                                   *)
StackOfPanic ==
    (PanicRecovered /\ req.r.method # HeadMethod) =>
        (StackRendered <=> req.debug)

----------------------------------------------------------------------------
(* The exported functions an application calls by itself.  A call holds    *)
(* the function and its arguments in req and its result in resp.           *)

(* Faulty variant: a matching If-Match settles the answer.                 *)
ValidateConditionsIfMatchFirst(resource, header) ==
    IF header.IfMatch # ""
    THEN header.IfMatch # resource.etag
    ELSE LET d == ParseTime(header.IfUnmodifiedSince)
         IN  ~d.err /\ d.t - resource.lastModified < 0

ValidateConditions(resource, header) ==
    LET d == ParseTime(header.IfUnmodifiedSince) IN
    IF ~d.err /\ d.t - resource.lastModified < 0 THEN TRUE
    ELSE header.IfMatch # "" /\ header.IfMatch # resource.etag

NoCall == [fn |-> "none", args |-> <<>>]

InitCalls ==
    /\ ac = NoPolicy
    /\ Debug = FALSE
    /\ req = NoCall
    /\ resp = FALSE

Call(fn, args, result) ==
    /\ req' = [fn |-> fn, args |-> args]
    /\ resp' = result
    /\ UNCHANGED <<ac, Debug>>

Return ==
    /\ req # NoCall
    /\ req' = NoCall
    /\ resp' = FALSE
    /\ UNCHANGED <<ac, Debug>>

ConditionTimes == 0..(MaxSecond * TicksPerSecond + 1)

ConditionHeaders ==
    [ IfUnmodifiedSince : {"", "yesterday"} \cup Dates,
      IfMatch : {"", "a", "z"} ]

CallValidateConditions ==
    /\ req = NoCall
    /\ \E etag \in {"", "a"}, t \in ConditionTimes, header \in ConditionHeaders :
           LET resource == Resource("doc", etag, t, 1, FALSE, FALSE, FALSE, 0)
           IN  Call("ValidateConditions", <<resource, header>>,
                    ValidateConditions(resource, header))

MaxParts == 3

MediaRanges ==
    { <<"text", TRUE, "plain">>, <<"text", TRUE, "html">>,
      <<"text", TRUE, "*">>, <<"*", TRUE, "*">>, <<"*", FALSE, "">>,
      <<"", FALSE, "">>, <<"application", TRUE, "xml">> }

AcceptParts == { AcceptPart(m[1], m[2], m[3], q) : m \in MediaRanges, q \in {10, 5} }

AcceptHeaders ==
    UNION { [1..n -> AcceptParts] : n \in 1..MaxParts }

CallParseAccept ==
    /\ req = NoCall
    /\ \E header \in AcceptHeaders :
           Call("ParseAccept", <<header>>, ParseAccept(header))

Accepted == { ParseAccept(header) : header \in AcceptHeaders }

Alternatives ==
    { alternatives, <<"text/html", "*/*">>, <<"text/plain", "text/html">>,
      <<"application/json">>, <<"text/html", "text/plain", "application/xml">> }

CallNegotiate ==
    /\ req = NoCall
    /\ \E accept \in Accepted, alts \in Alternatives :
           Call("Negotiate", <<accept, alts>>, Negotiate(accept, alts))

MaxCalls == 3

VaryTokens ==
    { "Accept", "accept", "ACCEPT", "Range", "range", "RANGE",
      "Accept-Encoding", "accept-encoding", "Origin" }

(* addVary is called on a new header set, then again on the same set.      *)
CallAddVary ==
    /\ req = NoCall \/ (req.fn = "addVary" /\ Len(req.args) < MaxCalls)
    /\ \E value \in VaryTokens :
           Call("addVary", Append(req.args, value),
                addVary(IF req = NoCall THEN EmptyHeader ELSE resp, value))

RangeNumbers == { 0, 1, 2, MaxUint64 - 1, MaxUint64, MaxUint64 + 1, MaxUint64 + 2 }

RawRanges ==
    { <<>> }
    \cup { <<u, s, f, "-">> :
              u \in {"bytes", "items", ""}, s \in {"=", " "}, f \in RangeNumbers }
    \cup { <<u, s, f, "-", t>> :
              u \in {"bytes", "items", ""}, s \in {"=", " "},
              f \in RangeNumbers, t \in RangeNumbers }

CallParseRange ==
    /\ req = NoCall
    /\ \E raw \in RawRanges : Call("ParseRange", <<raw>>, ParseRange(raw))

(* Range.Len, on the ranges ParseRange returns.                            *)
ParsedRanges == { ParseRange(raw).rg : raw \in { x \in RawRanges : ~ParseRange(x).err } }

CallRangeLen ==
    /\ req = NoCall
    /\ \E rg \in ParsedRanges : Call("Range.Len", <<rg>>, RangeLen(rg))

NextCalls ==
    \/ CallValidateConditions
    \/ CallParseRange
    \/ CallRangeLen
    \/ CallParseAccept
    \/ CallNegotiate
    \/ CallAddVary
    \/ Return

SpecCalls == InitCalls /\ [][NextCalls]_vars

----------------------------------------------------------------------------
(* Properties of ValidateConditions, under the specification of calls.     *)

Validated == req.fn = "ValidateConditions"

(* If-Unmodified-Since parses and is strictly earlier than LastModified.   *)
UnmodifiedSinceFails ==
    \E sec \in 0..MaxSecond :
        /\ req.args[2].IfUnmodifiedSince = rfc1123(sec)
        /\ sec * TicksPerSecond < req.args[1].lastModified

(* If-Match is present and differs from the ETag.                          *)
MatchFails ==
    /\ req.args[2].IfMatch # ""
    /\ req.args[2].IfMatch # req.args[1].etag

(* C14: ValidateConditions returns true if and only if If-Unmodified-Since *)
(* parses and is strictly earlier than the resource's LastModified, or     *)
(* If-Match is present and differs from the resource's ETag; with neither  *)
(* header it returns false, and a matching If-Match does not mask a        *)
(* failing If-Unmodified-Since.                                            *)
C14_ValidateConditions ==
    Validated =>
        /\ resp <=> (UnmodifiedSinceFails \/ MatchFails)
        /\ (req.args[2].IfUnmodifiedSince = "" /\ req.args[2].IfMatch = "")
               => ~resp
        /\ (UnmodifiedSinceFails /\ req.args[2].IfMatch = req.args[1].etag)
               => resp

C14_Witness ==
    /\ Validated
    /\ UnmodifiedSinceFails
    /\ req.args[2].IfMatch = "a"
    /\ req.args[1].etag = "a"
    /\ resp

----------------------------------------------------------------------------
(* Properties of ParseAccept, under the specification of calls.            *)

Parsed == req.fn = "ParseAccept"

(* Wildcards of a clause: none for text/plain, one for text/*, two for     *)
(* the full wildcard.                                                      *)
Wildcards(clause) ==
    (IF clause.Type = "*" THEN 1 ELSE 0) + (IF clause.SubType = "*" THEN 1 ELSE 0)

QualityOrdered ==
    \A i, j \in DOMAIN resp : i < j => resp[i].Q >= resp[j].Q

ConcreteFirst ==
    \A i, j \in DOMAIN resp :
        (i < j /\ resp[i].Q = resp[j].Q) => Wildcards(resp[i]) <= Wildcards(resp[j])

(* C15 as stated: ParseAccept returns the clauses sorted so that no clause *)
(* precedes a clause of strictly higher quality and, among clauses of      *)
(* equal quality, a concrete type or subtype precedes a wildcard in that   *)
(* position.                                                               *)
C15_AsStated == Parsed => (QualityOrdered /\ ConcreteFirst)

----------------------------------------------------------------------------
(* Properties of Accept.Negotiate, under the specification of calls.       *)

Negotiated == req.fn = "Negotiate"

(* Clause c of the receiver matches alternative i of the arguments.        *)
Hit(c, i) ==
    LET clause == req.args[1][c]
        alt == SplitType(req.args[2][i])
    IN  \/ clause.Type = alt[1] /\ clause.SubType = alt[2]
        \/ clause.Type = alt[1] /\ clause.SubType = "*"
        \/ clause.Type = "*" /\ clause.SubType = "*"

Hits(c) == { i \in DOMAIN req.args[2] : Hit(c, i) }

FirstClause(c) ==
    /\ c \in DOMAIN req.args[1]
    /\ Hits(c) # {}
    /\ \A b \in 1..(c - 1) : Hits(b) = {}

(* C16: Negotiate walks the clauses in order and returns, for the first    *)
(* clause that matches at least one alternative, the first alternative in  *)
(* argument order it matches (exact type/subtype, equal type with wildcard *)
(* subtype, or the full wildcard); it returns the empty string if and only *)
(* if no clause matches any alternative.                                   *)
C16_Negotiate ==
    Negotiated =>
        /\ \A c \in DOMAIN req.args[1] :
               FirstClause(c) =>
                   \E i \in Hits(c) :
                       /\ \A k \in Hits(c) : i <= k
                       /\ resp = req.args[2][i]
        /\ resp = "" <=> \A c \in DOMAIN req.args[1] : Hits(c) = {}

C16_Witness ==
    /\ Negotiated
    /\ Len(req.args[1]) >= 2
    /\ Hits(1) = {}
    /\ FirstClause(2)
    /\ 1 \notin Hits(2)
    /\ resp # ""
    /\ \E c \in DOMAIN req.args[1] : 1 \in Hits(c)

----------------------------------------------------------------------------
(* Rendering of errors, under the resource specification.                  *)

ErrorReturned == req.served /\ req.app.result = "Error"

(* The Accept header accepts text/html, directly or through a wildcard.    *)
AcceptsHTML ==
    \E i \in DOMAIN req.r.Accept :
        LET p == req.r.Accept[i]
        IN  \/ p.slash /\ p.type = "text" /\ p.sub \in {"html", "*"}
            \/ p.slash /\ p.type = "*" /\ p.sub = "*"
            \/ ~p.slash /\ p.type = "*"

NoPreference == req.r.Accept = NoAccept

RenderedAs(ct) == resp.sent["Content-Type"] = <<ct>>

(* C17 as stated: an Error is rendered as HTML whenever the Accept header  *)
(* accepts text/html, directly or through a wildcard, and whenever the     *)
(* request supplies no Accept preference; a structured rendering is chosen *)
(* only when the client states a preference that excludes HTML.            *)
C17_AsStated ==
    ErrorReturned =>
        RenderedAs("text/html; charset=utf-8") <=> (AcceptsHTML \/ NoPreference)

(* What holds: HTML exactly when the Accept header accepts it.             *)
HTMLWhenAccepted ==
    ErrorReturned => (RenderedAs("text/html; charset=utf-8") <=> AcceptsHTML)

----------------------------------------------------------------------------
(* Registration verb by verb, under the dispatch specification.            *)

FuncFor(method) ==
    CASE method = Get -> "GetFunc"
      [] method = Post -> "PostFunc"
      [] method = Put -> "PutFunc"
      [] method = Patch -> "PatchFunc"
      [] method = Delete -> "DeleteFunc"

ToMap == ToEndpoint /\ req.route.endpoint.lister

(* The pattern holds a handler registered through the Mux function of the  *)
(* request's verb.                                                         *)
RegisteredForVerb ==
    /\ ToMap
    /\ req.r.method \in {Get, Post, Put, Patch, Delete}
    /\ \E k \in DOMAIN req.route.endpoint.m :
           req.route.endpoint.m[k] = FuncFor(req.r.method)

HandlerInvoked == resp.calls = <<CapabilityFor(req.r.method)>>

(* C18 as stated: after Mux.Get, Post, Put, Patch or Delete registers a    *)
(* handler on a pattern, a request on that pattern with the corresponding  *)
(* verb invokes exactly that handler, and a registration for one verb is   *)
(* never kept under, nor reached by, another verb of the pattern.          *)
C18_AsStated ==
    /\ RegisteredForVerb => HandlerInvoked
    /\ ToMap => \A k \in DOMAIN req.route.endpoint.m :
                    req.route.endpoint.m[k] = FuncFor(k)

(* What holds: every registration but that of Mux.Patch is reached.        *)
RegisteredButPatch ==
    (RegisteredForVerb /\ req.r.method # Patch /\ req.route.endpoint.m[req.r.method] = FuncFor(req.r.method))
        => HandlerInvoked

----------------------------------------------------------------------------
(* If-Range, under the resource specification.                             *)

(* A GET of a Ranger with a well-formed Range in a supported unit and an   *)
(* If-Range header, and no other conditional header.                       *)
IfRangeRead ==
    /\ Returned
    /\ req.r.method = Get
    /\ req.app.resource.ranger
    /\ WellFormedRange
    /\ ToLower(req.r.Range[1]) \in {"bytes", "resources"}
    /\ req.r.IfRange # ""
    /\ req.r.IfModifiedSince = ""
    /\ req.r.IfNoneMatch = ""

(* If-Range is the ETag, or the HTTP date of LastModified.                 *)
IfRangeMatches ==
    \/ req.r.IfRange = req.app.resource.etag
    \/ req.r.IfRange = FormatTime(req.app.resource.lastModified)

WholeAnswer ==
    /\ resp.status = 200
    /\ resp.sent["Content-Range"] = <<>>
    /\ resp.calls = <<"Get">>
    /\ BodyIs(Marshal(req.app.resource, req.r).b)

SliceAnswer ==
    /\ resp.status = 206
    /\ resp.sent["Content-Range"] # <<>>
    /\ resp.calls = <<"Get", "Range">>

(* C19 as stated: for a GET on a Ranger with a valid, supported Range, an  *)
(* If-Range that equals neither the ETag nor, as an HTTP date, the         *)
(* LastModified of the resource has the Range ignored: Ranger.Range is not *)
(* called and the whole resource is served 200 without Content-Range; an   *)
(* If-Range that matches either has the range served as 206.               *)
C19_AsStated ==
    IfRangeRead =>
        /\ ~IfRangeMatches => WholeAnswer
        /\ (IfRangeMatches /\ From < Count /\ req.app.partialLen > 0)
               => SliceAnswer

(* What holds: the same with the exact modification time for the date.     *)
IfRangeExact ==
    IfRangeRead =>
        /\ ifRangeFails(req.r.IfRange, req.app.resource) => WholeAnswer
        /\ (~ifRangeFails(req.r.IfRange, req.app.resource) /\ From < Count
              /\ req.app.partialLen > 0) => SliceAnswer

----------------------------------------------------------------------------
(* Properties of addVary, under the specification of calls.                *)

Varying == req.fn = "addVary"

(* Tokens that differ only in letter case fold to the same token.          *)
FoldCase(s) ==
    CASE s \in {"Accept", "ACCEPT"} -> "accept"
      [] s \in {"Range", "RANGE"} -> "range"
      [] s = "Accept-Encoding" -> "accept-encoding"
      [] s = "Origin" -> "origin"
      [] OTHER -> s

(* The first call that passed the token, whatever its case.                *)
FirstPassed(s) ==
    CHOOSE k \in DOMAIN req.args :
        /\ FoldCase(req.args[k]) = FoldCase(s)
        /\ \A b \in 1..(k - 1) : FoldCase(req.args[b]) # FoldCase(s)

(* C20: after any sequence of addVary calls on a header set, Vary holds no *)
(* duplicate token, tokens differing only in letter case counting as the   *)
(* same; every token passed is present exactly once, in the order of the   *)
(* first insertions.                                                       *)
C20_AddVary ==
    Varying =>
        LET vary == resp["Vary"] IN
        /\ \A i, j \in DOMAIN vary :
               i # j => FoldCase(vary[i]) # FoldCase(vary[j])
        /\ \A k \in DOMAIN req.args :
               Cardinality({ i \in DOMAIN vary :
                                 FoldCase(vary[i]) = FoldCase(req.args[k]) }) = 1
        /\ \A i \in DOMAIN vary :
               \E k \in DOMAIN req.args : FoldCase(req.args[k]) = FoldCase(vary[i])
        /\ \A i, j \in DOMAIN vary :
               i < j => FirstPassed(vary[i]) < FirstPassed(vary[j])

C20_Witness ==
    /\ Varying
    /\ req.args = <<"accept", "Range", "ACCEPT">>
    /\ resp["Vary"] = <<"Accept", "Range">>

----------------------------------------------------------------------------
(* Ranges that are ignored, under the resource specification.              *)

UnitSupported ==
    \E i \in DOMAIN Units : ToLower(req.r.Range[1]) = Units[i]

(* A read of a Ranger whose Range header is absent, malformed, or names a  *)
(* unit the resource does not declare.                                     *)
RangeIgnored ==
    /\ Read
    /\ req.app.resource.ranger
    /\ \/ req.r.Range = <<>>
       \/ ~WellFormedRange
       \/ ~UnitSupported

(* C21: a GET or HEAD on a Ranger whose Range header is absent, invalid,   *)
(* or names a unit not in Units() (case-insensitively) is served like a    *)
(* request without Range: Ranger.Range is not called, neither              *)
(* Content-Range nor Vary: Range is set, the answer is never 416, and,     *)
(* unless the conditional headers give 304, it is 200 with the whole       *)
(* resource (no body for a HEAD).                                          *)
C21_RangeIgnored ==
    RangeIgnored =>
        /\ resp.calls = <<"Get">>
        /\ resp.sent["Content-Range"] = <<>>
        /\ ~VaryHas(resp.sent, "Range")
        /\ resp.status # 416
        /\ ~Conditional304 =>
              /\ resp.status = 200
              /\ req.r.method = Get => BodyIs(Marshal(req.app.resource, req.r).b)
              /\ req.r.method = HeadMethod => resp.body = <<>>

C21_Witness ==
    /\ RangeIgnored
    /\ req.r.Range = <<"items", "=", 0, "-", 1>>
    /\ req.r.method = Get
    /\ Count = 0
    /\ resp.status = 200
    /\ Len(resp.body) = 1

----------------------------------------------------------------------------
(* HEAD and GET, under the resource specification.                         *)

HeadServed == req.served /\ req.r.method = HeadMethod

(* The response to the same request made with GET: same Mux, same route,   *)
(* same headers, same answer of the Get operation.                         *)
GetAnswer ==
    MuxServeHTTP(req.policy, req.debug, req.route,
                 [req.r EXCEPT !.method = Get], req.app).w

----------------------------------------------------------------------------
(* The list of allowed methods, under the dispatch specification.          *)

(* The response of the same Mux to the same request made with the verb.    *)
VerbAnswer(verb) ==
    MuxServeHTTP(req.policy, req.debug, req.route,
                 [req.r EXCEPT !.method = verb], req.app).w

(* The endpoint serves the verb: a request with it reaches an operation.   *)
Serves(verb) == VerbAnswer(verb).calls # <<>>

ServedInFixedOrder == SelectSeq(supportedMethods, LAMBDA verb : Serves(verb))

Lists(list, verb) == \E i \in DOMAIN list : list[i] = verb

(* C23 as stated: AllowedMethods(endpoint) returns exactly the verbs the   *)
(* endpoint serves, in the fixed order HEAD, GET, PATCH, PUT, POST,        *)
(* DELETE, with HEAD if and only if GET; two calls on the same endpoint    *)
(* return the same list.                                                   *)
C23_AsStated ==
    ToEndpoint =>
        /\ AllowedNow = ServedInFixedOrder
        /\ Lists(AllowedNow, HeadMethod) <=> Lists(AllowedNow, Get)
        /\ AllowedMethods(req.route.endpoint, req.app.corsOrder) = AllowedNow

(* What holds: the same for endpoints that do not list their methods       *)
(* themselves.                                                             *)
AllowedByCapability ==
    (ToEndpoint /\ ~req.route.endpoint.lister) =>
        /\ AllowedNow = ServedInFixedOrder
        /\ Lists(AllowedNow, HeadMethod) <=> Lists(AllowedNow, Get)

----------------------------------------------------------------------------
(* Advertised verbs, under the dispatch specification.                     *)

HeadWhereGetServed ==
    ToEndpoint /\ req.r.method = HeadMethod /\ Serves(Get)

(* C24 as stated: every verb an endpoint advertises in its Allow list is   *)
(* served when requested; a HEAD request on an endpoint that serves GET, a *)
(* capability endpoint or a pattern registered with Mux.Get, is dispatched *)
(* to the Get operation and is never answered 405.                         *)
C24_AsStated ==
    /\ ToEndpoint => \A i \in DOMAIN AllowedNow : Serves(AllowedNow[i])
    /\ HeadWhereGetServed => resp.calls = <<"Get">> /\ resp.status # 405

(* What holds: the same on endpoints that do not list their methods        *)
(* themselves.                                                             *)
AdvertisedByCapability ==
    /\ (ToEndpoint /\ ~req.route.endpoint.lister)
           => \A i \in DOMAIN AllowedNow : Serves(AllowedNow[i])
    /\ (HeadWhereGetServed /\ ~req.route.endpoint.lister)
           => resp.calls = <<"Get">> /\ resp.status # 405

----------------------------------------------------------------------------
(* Properties of ParseRange, under the specification of calls.             *)

RangeParsed == req.fn = "ParseRange"

Raw == req.args[1]

(* <unit>=<from>-[<to>], with to omitted or from <= to.                    *)
RangeForm ==
    /\ Len(Raw) \in {4, 5}
    /\ Raw[1] # ""
    /\ Raw[2] = "="
    /\ Len(Raw) = 5 => Raw[3] <= Raw[5]

AsWritten ==
    /\ resp.rg.Unit = Raw[1]
    /\ resp.rg.From = Raw[3]
    /\ resp.rg.To = IF Len(Raw) = 5 THEN Raw[5] ELSE MaxUint64

(* C25 as stated: ParseRange succeeds exactly when raw has the form        *)
(* <unit>=<from>-[<to>] with to omitted or from <= to; on success it       *)
(* returns unit, from and to as written, to being the largest uint64 when  *)
(* omitted; it fails for a wrong separator and for from > to.              *)
C25_AsStated ==
    RangeParsed =>
        /\ ~resp.err <=> RangeForm
        /\ ~resp.err => AsWritten

(* What holds: the same for numbers a uint64 can hold.                     *)
RangeWithinUint64 ==
    (RangeParsed /\ \A i \in DOMAIN Raw \cap {3, 5} : Raw[i] <= MaxUint64) =>
        /\ ~resp.err <=> RangeForm
        /\ ~resp.err => AsWritten

----------------------------------------------------------------------------
(* Properties of Range.Len, under the specification of calls.              *)

LenTaken == req.fn = "Range.Len"

(* The units from From through To, both included, as Content-Range and     *)
(* the slicing of Ranger.Range count them.                                 *)
UnitsRequested ==
    Cardinality({ u \in 0..MaxUint64 : req.args[1].From <= u /\ u <= req.args[1].To })

(* C26 as stated: Range.Len returns the number of units requested in the   *)
(* range: for a bounded range from..to, both inclusive, the count of units *)
(* from from through to.                                                   *)
C26_AsStated ==
    (LenTaken /\ req.args[1].To < MaxUint64) => resp = UnitsRequested

(* What holds: Len is one less than the number of units.                   *)
LenIsDifference ==
    (LenTaken /\ req.args[1].To < MaxUint64) => resp = UnitsRequested - 1

----------------------------------------------------------------------------
(* Order of the conditional check and of the range processing, under the   *)
(* resource specification.                                                 *)

(* The conditional headers satisfy the 304 condition of writeResource on   *)
(* the resource the Get operation returned.                                *)
NotModifiedAsReturned ==
    \/ notModifiedSince(ParseTime(req.r.IfModifiedSince),
                        req.app.resource.lastModified)
    \/ noneMatch(SplitSemicolon(req.r.IfNoneMatch), req.app.resource.etag)

GetReturned == Returned /\ req.r.method = Get

RangerCalled == \E i \in DOMAIN resp.calls : resp.calls[i] = "Range"

(* C27 as stated: in a GET the conditional check on the resource returned  *)
(* by Get precedes all range processing: a request whose If-None-Match or  *)
(* If-Modified-Since satisfies the 304 condition is answered 304 whatever  *)
(* its Range header, and a 416 is produced only when the conditional check *)
(* did not short-circuit.                                                  *)
C27_AsStated ==
    GetReturned =>
        /\ NotModifiedAsReturned => (resp.status = 304 /\ ~RangerCalled)
        /\ resp.status = 416 => ~NotModifiedAsReturned

(* What holds: the same when no range is processed.                        *)
ConditionalWithoutRange ==
    (GetReturned /\ NotModifiedAsReturned
       /\ servesWhole(ParseRange(req.r.Range), req.app.resource, req.r))
        => (resp.status = 304 /\ ~RangerCalled)

----------------------------------------------------------------------------
(* Negotiation failures, under the resource specification.                 *)

(* The returned resource reached Marshal and no representation of it is    *)
(* acceptable.                                                             *)
NegotiationFailed ==
    /\ Returned
    /\ \E i \in DOMAIN resp.log : resp.log[i].op = "Marshal"
    /\ Encoding.err = NotAcceptable

(* C28 as stated: a negotiation failure is surfaced to the client as a 406 *)
(* Not Acceptable response written by the Error writer, for every verb     *)
(* that returns a resource: Get/Head, Post, Put and Patch alike.           *)
C28_AsStated ==
    NegotiationFailed =>
        /\ resp.status = 406
        /\ 406 \in ErrorCodes
        /\ resp.sent["Content-Type"] # <<>>

(* What holds: the same for Get, Head and Post.                            *)
NotAcceptableRead ==
    (NegotiationFailed /\ req.r.method \in {Get, HeadMethod, Post}) =>
        /\ resp.status = 406
        /\ 406 \in ErrorCodes
        /\ resp.sent["Content-Type"] # <<>>

----------------------------------------------------------------------------
(* Vary of compressed responses, under the resource specification.         *)

Compressed == req.served /\ resp.sent["Content-Encoding"] # <<>>

VaryCount(value) ==
    Cardinality({ i \in DOMAIN resp.sent["Vary"] : resp.sent["Vary"][i] = value })

(* C29 as stated: every response that carries a Content-Encoding header    *)
(* has Vary containing Accept-Encoding exactly once, on every body-writing *)
(* path: the shared routine and a resource wrapped in an Envelope.         *)
C29_AsStated == Compressed => VaryCount("Accept-Encoding") = 1

(* What holds: the same for resources that are not their own handler.      *)
VaryOfSharedRoutine ==
    (Compressed /\ ~req.app.resource.handler) => VaryCount("Accept-Encoding") = 1

----------------------------------------------------------------------------
(* Letter case of the verb, under the dispatch specification.              *)

(* The verb of the request is not written in upper case.                   *)
OtherCase == ToEndpoint /\ ToUpper(req.r.method) # req.r.method

SameAnswer(w) ==
    /\ resp.status = w.status
    /\ resp.sent = w.sent
    /\ resp.calls = w.calls

(* C30 as stated: a request whose verb is written in any letter case is    *)
(* dispatched to the same operation and receives the same status and       *)
(* headers as the same request with the upper-case verb, on capability     *)
(* endpoints and on Mux-registered patterns.                               *)
C30_AsStated == OtherCase => SameAnswer(VerbAnswer(ToUpper(req.r.method)))

(* What holds: the same for the verbs of operations on endpoints that do   *)
(* not list their methods themselves.                                      *)
OtherCaseByCapability ==
    (OtherCase /\ ~req.route.endpoint.lister /\ ToUpper(req.r.method) # Options)
        => SameAnswer(VerbAnswer(ToUpper(req.r.method)))

----------------------------------------------------------------------------
(* The range handed to Ranger.Range, under the resource specification.     *)

(* Ranger.Range was called: with the range adjust returned.                *)
PassedToRange == RangeRequested /\ RangerCalled

WithinExtent(rg, count) == rg.From <= rg.To /\ rg.To <= count - 1

(* C31 as stated: every Range passed to Ranger.Range satisfies from <= to  *)
(* and lies inside the extent [0, Count()-1] of the resource: adjust       *)
(* answers 416 whenever the requested range does not overlap the extent.   *)
C31_AsStated == PassedToRange => WithinExtent(Adjusted.rg, Count)

(* What holds: the same for a range that starts inside the extent.         *)
StartsInsideExtent ==
    (PassedToRange /\ From < Count) => WithinExtent(Adjusted.rg, Count)

----------------------------------------------------------------------------
(* Status of an encoded resource, under the resource specification.        *)

(* The resource writeResource was given, as the calls of the request tell. *)
Given ==
    IF RangerCalled THEN Partial(req.app.resource, req.app)
    ELSE req.app.resource

(* writeResource encoded the resource it was given.                        *)
ResourceEncoded ==
    /\ Returned
    /\ \E i \in DOMAIN resp.log : resp.log[i].op = "Marshal"
    /\ Marshal(Given, req.r).err = NoError

EncodedLen == Marshal(Given, req.r).b.len

Posted == ToUpper(req.r.method) = Post

(* C32 as stated: once the resource is encoded, an empty encoded body      *)
(* yields 204 for every verb except POST, which yields 201; a non-empty    *)
(* body yields 206 if and only if a Content-Range header was set by the    *)
(* range path, and 200 otherwise; for HEAD the status and headers are      *)
(* written but never the body bytes.                                       *)
C32_AsStated ==
    ResourceEncoded =>
        /\ EncodedLen = 0 => resp.status = (IF Posted THEN 201 ELSE 204)
        /\ (EncodedLen > 0 /\ ~Posted) =>
              /\ resp.status \in {200, 206}
              /\ resp.status = 206 <=> RangerCalled
              /\ resp.status = 206 <=> resp.sent["Content-Range"] # <<>>
        /\ req.r.method = HeadMethod => resp.body = <<>>

(* What holds: the same for the verbs whose handler writes no status       *)
(* before the resource.                                                    *)
StatusOfFirstWrite ==
    (ResourceEncoded /\ req.r.method \notin {Put, Patch}) =>
        /\ EncodedLen = 0 => resp.status = (IF Posted THEN 201 ELSE 204)
        /\ (EncodedLen > 0 /\ ~Posted) =>
              /\ resp.status \in {200, 206}
              /\ resp.status = 206 <=> RangerCalled
        /\ req.r.method = HeadMethod => resp.body = <<>>

----------------------------------------------------------------------------
(* The recovery boundary, under the resource specification.                *)

(* A step of the dispatch panicked: the operation itself, or ErrorHandler  *)
(* given an error that is no *Error by the operation or by the encoder.    *)
DispatchPanicked == req.served /\ resp.panicked

EncoderFailed ==
    /\ Returned
    /\ req.app.resource.name = Unencodable
    /\ Marshal(req.app.resource, req.r).err = GoError

(* C33 as stated: when an operation returns an error that is no *Error or  *)
(* any step of the dispatch panics, at whatever point, the recovery of     *)
(* Mux.ServeHTTP answers 500 through the Error writer and the client never *)
(* receives a success status.                                              *)
C33_AsStated ==
    DispatchPanicked => (resp.status = 500 /\ 500 \in ErrorCodes)

(* What holds: the same when the panic precedes every write of a status.   *)
RecoveredBeforeStatus ==
    (DispatchPanicked /\ ~(EncoderFailed /\ req.r.method \in {Put, Patch}))
        => (resp.status = 500 /\ 500 \in ErrorCodes)

----------------------------------------------------------------------------
(* Verbs without a registration, under the dispatch specification.         *)

(* No Mux function registered a handler for the verb on the pattern, and   *)
(* none is kept under it.                                                  *)
Unregistered ==
    /\ ToMap
    /\ req.r.method \in {Get, Post, Put, Patch, Delete}
    /\ req.r.method \notin DOMAIN req.route.endpoint.m
    /\ \A k \in DOMAIN req.route.endpoint.m :
           req.route.endpoint.m[k] # FuncFor(req.r.method)

RefusedWithAllow ==
    /\ resp.status = 405
    /\ resp.sent["Allow"] = <<Join(AllowedNow, ", ")>>
    /\ NoOperationInvoked

(* C34 as stated: on a pattern registered through Mux.Get, Post, Put,      *)
(* Patch or Delete, a request whose verb has no registered handler invokes *)
(* no handler and is answered 405 with an Allow header listing the         *)
(* registered verbs; it is never answered with a success status.           *)
C34_AsStated == Unregistered => RefusedWithAllow

(* What holds: the same for every verb but DELETE.                         *)
UnregisteredButDelete ==
    (Unregistered /\ req.r.method # Delete) => RefusedWithAllow

----------------------------------------------------------------------------
(* Requests without a conditional header, under the resource               *)
(* specification.                                                          *)

Unconditional ==
    /\ req.served
    /\ req.r.IfModifiedSince = ""
    /\ req.r.IfNoneMatch = ""

(* C35 as stated: a request with neither If-Modified-Since nor             *)
(* If-None-Match is never answered 304, for any resource, including one    *)
(* whose ETag is the empty string.                                         *)
C35_AsStated == Unconditional => resp.status # 304

(* What holds: the same for a resource whose ETag is not empty.            *)
UnconditionalWithETag ==
    (Unconditional /\ Returned /\ Given.etag # "") => resp.status # 304

----------------------------------------------------------------------------
(* The configured policy, under the dispatch specification.                *)

(* A request is served in this step.                                       *)
Serving == ~req.served /\ req'.served

(* C36 as stated: serving a request never modifies the configured CORS     *)
(* policy: its Origin, ExposedHeaders, Methods, AllowedHeaders,            *)
(* Credentials and MaxAge, and the elements of its slices, are unchanged.  *)
C36_AsStated == [][Serving => ac' = ac]_vars

CanonicalPolicy(policy) ==
    [policy EXCEPT !.ExposedHeaders.items = normalizeHeaderArray(@),
                   !.AllowedHeaders.items = normalizeHeaderArray(@)]

(* What holds: serving leaves everything but the letter case of the header *)
(* names of the policy unchanged.                                          *)
PolicyUpToCase ==
    [][Serving => CanonicalPolicy(ac') = CanonicalPolicy(ac)]_vars
----------------------------------------------------------------------------
(* Calls of WriteHeader, under the resource specification.                 *)

StatusWrites ==
    { i \in DOMAIN resp.log : resp.log[i].op = "WriteHeader" }

LastStatusWritten ==
    resp.log[CHOOSE i \in StatusWrites : \A j \in StatusWrites : j <= i].code

(* C37 as stated: on every path through GetFunc, PostFunc, PutFunc,        *)
(* PatchFunc, DeleteFunc and the Error writer WriteHeader is called at     *)
(* most once in a request, so the status the client receives is the status *)
(* the last step decided.                                                  *)
C37_AsStated ==
    req.served =>
        /\ Cardinality(StatusWrites) <= 1
        /\ StatusWrites # {} => resp.status = LastStatusWritten

(* What holds: the same for the verbs other than PUT and PATCH.            *)
WrittenOnce ==
    (req.served /\ req.r.method \notin {Put, Patch}) =>
        /\ Cardinality(StatusWrites) <= 1
        /\ StatusWrites # {} => resp.status = LastStatusWritten

----------------------------------------------------------------------------
(* The clamp of adjust, under the resource specification.                  *)

(* adjust was given the parsed range of the request and returned no error. *)
AdjustSucceeded == RangeRequested /\ Adjusted.err = NoError

(* C38 as stated: the clamp in adjust never wraps around: for every        *)
(* Count() including 0 and every from and to, a successful adjust leaves   *)
(* to strictly below Count(), and an empty resource never yields a         *)
(* successfully adjusted range.                                            *)
C38_AsStated == AdjustSucceeded => (Adjusted.rg.To < Count /\ Count # 0)

(* What holds: the same for a resource that is not empty.                  *)
ClampedWhenNotEmpty ==
    (AdjustSucceeded /\ Count > 0) => Adjusted.rg.To < Count

----------------------------------------------------------------------------
(* Content-Range and the status, under the resource specification.         *)

ContentRangeSent == req.served /\ resp.sent["Content-Range"] # <<>>

(* C39 as stated: a Content-Range header appears only on 206 and 416       *)
(* responses, whatever the step at which the range path is abandoned after *)
(* the header was set.                                                     *)
C39_AsStated == ContentRangeSent => resp.status \in {206, 416}

(* What holds: the same when the slice is not empty and the conditional    *)
(* check of the slice does not answer 304.                                 *)
ContentRangeOfSlice ==
    (ContentRangeSent /\ ~Conditional304 /\ Marshal(Given, req.r).b.len > 0)
        => resp.status \in {206, 416}

----------------------------------------------------------------------------
(* The concurrent specification: one request in flight in Mux.ServeHTTP    *)
(* while another goroutine calls SetCORSPolicy.  Mux has no lock: the      *)
(* field s.ac is written by SetCORSPolicy and read by ServeHTTP, once for  *)
(* the nil test and once for the argument of newAccessControlHandler.  The *)
(* second read yields the value of the first (kept in a register) or the   *)
(* value the field holds by then.  req.pc is the position of the request,  *)
(* req.policy the value the nil test observed, req.handed the value passed *)
(* to the access control handler.                                          *)

InFlight(served, route, r, app, policy, debug, pc, handed) ==
    [ served |-> served, route |-> route, r |-> r, app |-> app,
      policy |-> policy, debug |-> debug, pc |-> pc, handed |-> handed ]

Idle ==
    InFlight(FALSE, NoRequest.route, NoRequest.r, NoRequest.app, NoPolicy,
             FALSE, "idle", NoPolicy)

InitConcurrent ==
    /\ ac = NoPolicy
    /\ Debug = FALSE
    /\ req = Idle
    /\ resp = rawResponseWriter("")

ConcurrentRoutes ==
    { FullEndpoint, Route("endpoint", Endpoint({"Post"}, TRUE)),
      Route("plain", NilEndpoint) }

ConcurrentRequests ==
    { Request(m, NoAccept, "", <<>>, "", "", "", o, "", <<>>) :
        m \in {Get, Options}, o \in Origins }

(* Applications that do not fail by themselves.                            *)
ConcurrentApps(route, r) ==
    { app \in DispatchApps(route, r) : app.result \in {"nil", "resource"} }

ConcurrentSetCORSPolicy(policy) ==
    /\ ac' = policy
    /\ UNCHANGED <<Debug, req, resp>>

(* The request enters ServeHTTP and is matched to its route.               *)
ServeHTTPMatch ==
    /\ req.pc = "idle"
    /\ \E route \in ConcurrentRoutes : \E r \in ConcurrentRequests :
         \E app \in ConcurrentApps(route, r) :
            /\ req' = InFlight(FALSE, route, r, app, NoPolicy, Debug, "matched",
                               NoPolicy)
            /\ resp' = rawResponseWriter(r.method)
    /\ UNCHANGED <<ac, Debug>>

(* if s.ac != nil                                                          *)
ServeHTTPObserve ==
    /\ req.pc = "matched"
    /\ req' = [req EXCEPT !.policy = ac, !.pc = "observed"]
    /\ UNCHANGED <<ac, Debug, resp>>

(* The rest of ServeHTTP: the access control handler on the policy read    *)
(* the second time, whose nil pointer is dereferenced when the request has *)
(* an Origin and Preflight is not asked, then the handler of the route and *)
(* the recovery.                                                           *)
ServeHTTPHandle ==
    /\ req.pc = "observed"
    /\ \E p \in (IF req.policy = NoPolicy THEN {NoPolicy} ELSE {req.policy, ac}) :
         LET endpoint == routeEndpoint(req.route)
             w0 == rawResponseWriter(req.r.method)
             cors == IF req.policy = NoPolicy THEN w0
                     ELSE IF /\ p = NoPolicy
                             /\ req.r.Origin # <<>>
                             /\ ~callsPreflight(endpoint, req.r)
                     THEN [w0 EXCEPT !.panicked = TRUE]
                     ELSE accessControlHandlerServeHTTP(endpoint, p, w0, req.r,
                                                        req.app)
             out == IF cors.panicked THEN cors
                    ELSE matchServeHTTP(req.route, cors, req.r, req.app)
         IN  /\ resp' = finishRequest(recover(out, req.debug, req.r))
             /\ req' = [req EXCEPT !.served = TRUE, !.handed = p, !.pc = "done"]
             /\ ac' = IF p # NoPolicy /\ p = ac
                      THEN policyAfter(endpoint, ac, req.r) ELSE ac
    /\ UNCHANGED Debug

ServeHTTPReturn ==
    /\ req.pc = "done"
    /\ req' = Idle
    /\ resp' = rawResponseWriter("")
    /\ UNCHANGED <<ac, Debug>>

NextConcurrent ==
    \/ \E policy \in Policies : ConcurrentSetCORSPolicy(policy)
    \/ ServeHTTPMatch
    \/ ServeHTTPObserve
    \/ ServeHTTPHandle
    \/ ServeHTTPReturn

SpecConcurrent == InitConcurrent /\ [][NextConcurrent]_vars

----------------------------------------------------------------------------
(* Properties of the concurrent specification.                             *)

(* The request was served after its nil test saw a policy.                 *)
ServedObserving == req.pc = "done" /\ req.policy # NoPolicy

(* C40 as stated: a request served while SetCORSPolicy is called           *)
(* concurrently is handled under the old or the new policy as a whole:     *)
(* ServeHTTP never hands a nil policy to the CORS handler after having     *)
(* observed one that is not nil, and the request does not fail because of  *)
(* the policy change.                                                      *)
C40_AsStated ==
    ServedObserving =>
        /\ req.handed # NoPolicy
        /\ ~resp.panicked
        /\ resp.status # 500

(* What holds: a request whose CORS handler was handed a policy is served  *)
(* without failure.                                                        *)
ServedUnderPolicy ==
    (ServedObserving /\ req.handed # NoPolicy)
        => (~resp.panicked /\ resp.status # 500)

====
